---- MODULE Spec2Model ----
(***************************************************************************)
(* A model of testcode2: the status algebra and tolerance validation of    *)
(* validation.py, the directory lock of _lock.py, the Test orchestrator of *)
(* testcode2/__init__.py and the run and compare actions of                *)
(* bin/testcode.py.                                                        *)
(***************************************************************************)
EXTENDS Integers, Sequences, FiniteSets, TLC

VARIABLES
    \* ---- configuration, fixed once the tests have been initialised ----
    nthreads,       \* options.nthreads
    cluster_queue,  \* options.queue_system given (TRUE) or None (FALSE)
    actions,        \* the actions of the command line: a subset of {"run","compare"}
    test_program,   \* the TestProgram shared by the tests: [verify, ignore_fields]
    tests,          \* tests[t]: [ninputs, output] of Test t; its path is directory t
    \* ---- the process ----
    status,         \* status[t][c] = <<attempted, passed>>: Test.status
    lock,           \* DIR_LOCK.lock is held
    cwd,            \* the working directory of the process (os.getcwd())
    pc,             \* pc[th]: where thread th is; thread 0 is the main thread,
                    \* thread t > 0 runs tests[t].run_test
    frame,          \* frame[th]: the locals of thread th
    \* ---- calls of the pure functions of validation.py ----
    fn_args,        \* the arguments of the call
    fn_ret          \* the value returned ("none" before the call)

vars == <<nthreads, cluster_queue, actions, test_program, tests,
          status, lock, cwd, pc, frame, fn_args, fn_ret>>

config_vars == <<nthreads, cluster_queue, actions, test_program, tests>>
run_vars == <<status, lock, cwd, pc, frame>>
fn_vars == <<fn_args, fn_ret>>

-----------------------------------------------------------------------------
(* Bounds of the model. *)

MaxVal == 2         \* numeric values are the integers -MaxVal..MaxVal
MaxTol == 2         \* thresholds are 0 (None or 0: not set) .. MaxTol
NTests == 3         \* the number of Tests of the run
MaxInputs == 2      \* a Test has at most MaxInputs (input, argument) pairs
MaxThreads == 2     \* options.nthreads is 1..MaxThreads
CmpVal == 1         \* values of compared mappings are the integers 0..CmpVal
CmpLen == 2         \* a compared key has 1..CmpLen values
MaxPolls == 3       \* the status command is run at most MaxPolls times
MaxId == 3          \* a file id (run id) has 1..MaxId characters
MaxLines == 2       \* a file of tagged output has 1..MaxLines lines
MaxRows == 2        \* a table has 1..MaxRows rows under its header
NCallers == 2       \* the threads whose calls are followed
MaxCount == 40      \* the count of polls of an endless wait stops at MaxCount

-----------------------------------------------------------------------------
(* validation.Status *)

UNKNOWN == -2
SKIPPED == -1
PASSED == 0
PARTIAL == 1
FAILED == 2

StatusValues == {UNKNOWN, SKIPPED, PASSED, PARTIAL, FAILED}

\* A Status(bools) that takes a list with no true in it for no list.
StatusOfBoolsAny(bools) ==
    IF \E i \in 1..Len(bools) : bools[i]
    THEN IF \A i \in 1..Len(bools) : bools[i] THEN PASSED ELSE PARTIAL
    ELSE UNKNOWN

\* Status(bools): all true -> passed, some true -> partial, none -> failed;
\* an empty (or no) list of booleans -> unknown.
StatusOfBools(bools) ==
    IF Len(bools) > 0
    THEN IF \A i \in 1..Len(bools) : bools[i] THEN PASSED
         ELSE IF \E i \in 1..Len(bools) : bools[i] THEN PARTIAL
         ELSE FAILED
    ELSE UNKNOWN

\* An addition that returns the minimum level.
StatusAddMin(a, b) == IF a <= b THEN a ELSE b

\* An addition that returns its left operand.
StatusAddFirst(a, b) == a

\* Status.__add__: the maximum level.
StatusAdd(a, b) == IF a >= b THEN a ELSE b

-----------------------------------------------------------------------------
(* Values extracted from output: floats (integers here), NaN, and text. *)

Num(i) == [kind |-> "num", n |-> i]
NaN == [kind |-> "nan", n |-> 0]
Str(i) == [kind |-> "str", n |-> i]

NumValues == {Num(i) : i \in -MaxVal..MaxVal}
Values == NumValues \cup {NaN} \cup {Str(0), Str(1)}

Abs(i) == IF i < 0 THEN -i ELSE i

\* A constructor test that accepts every pair of thresholds.
ToleranceOKAlways(absolute, relative) == TRUE

\* Tolerance.__init__: a threshold of None or 0 is not set; with neither set the
\* constructor raises TestCodeError and no object exists.
ToleranceOK(absolute, relative) == ~(absolute = 0 /\ relative = 0)

Tolerance(absolute, relative, strict) ==
    [absolute |-> absolute, relative |-> relative, strict |-> strict]

\* Tolerance(absolute, relative, strict): the exception raised ("none": it
\* returns) and the object made (<<>>: none).
Tolerance_init(absolute, relative, strict) ==
    IF ToleranceOK(absolute, relative)
    THEN [exc |-> "none", obj |-> <<Tolerance(absolute, relative, strict)>>]
    ELSE [exc |-> "TestCodeError", obj |-> <<>>]

\* config.parse_tolerance_tuple(val), val = (abs_tol, rel_tol, name) or a
\* prefix of it: (name, Tolerance(abs_tol, rel_tol)); a missing element is
\* None.
parse_tolerance_tuple(val) ==
    LET name == IF Len(val) = 3 THEN <<val[3]>> ELSE <<>>
        rel_tol == IF Len(val) >= 2 THEN val[2] ELSE 0
        abs_tol == IF Len(val) >= 1 THEN val[1] ELSE 0
        made == Tolerance_init(abs_tol, rel_tol, TRUE)
    IN  [name |-> name, exc |-> made.exc, obj |-> made.obj]

Tolerances ==
    {Tolerance(a, r, s) : a \in 0..MaxTol, r \in 0..MaxTol, s \in BOOLEAN} \
        {Tolerance(0, 0, s) : s \in BOOLEAN}

\* A validate_absolute that lets an error equal to the threshold pass.
validate_absolute_le(tol, benchmark_val, test_val) ==
    IF tol.absolute # 0
    THEN LET diff == test_val - benchmark_val
             err == Abs(diff)
             passed == err <= tol.absolute
         IN  [status |-> StatusOfBools(<<passed>>),
              msg |-> IF passed THEN "" ELSE "absolute error greater than"]
    ELSE [status |-> StatusOfBools(<<TRUE>>),
          msg |-> "No absolute tolerance set."]

\* A validate_absolute that compares the difference, not its magnitude.
validate_absolute_signed(tol, benchmark_val, test_val) ==
    IF tol.absolute # 0
    THEN LET diff == test_val - benchmark_val
             passed == diff < tol.absolute
         IN  [status |-> StatusOfBools(<<passed>>),
              msg |-> IF passed THEN "" ELSE "absolute error greater than"]
    ELSE [status |-> StatusOfBools(<<TRUE>>),
          msg |-> "No absolute tolerance set."]

\* Tolerance.validate_absolute(benchmark_val, test_val) on numbers.
validate_absolute(tol, benchmark_val, test_val) ==
    IF tol.absolute # 0
    THEN LET diff == test_val - benchmark_val
             err == Abs(diff)
             passed == err < tol.absolute
         IN  [status |-> StatusOfBools(<<passed>>),
              msg |-> IF passed THEN "" ELSE "absolute error greater than"]
    ELSE [status |-> StatusOfBools(<<TRUE>>),
          msg |-> "No absolute tolerance set."]

\* A validate_relative without the cases for a benchmark of 0: the error of
\* 0 against 0 is not below any threshold.
validate_relative_nozero(tol, benchmark_val, test_val) ==
    IF tol.relative # 0
    THEN LET diff == test_val - benchmark_val
             passed == Abs(diff) < tol.relative * Abs(benchmark_val)
         IN  [status |-> StatusOfBools(<<passed>>),
              msg |-> IF passed THEN "" ELSE "relative error greater than"]
    ELSE [status |-> StatusOfBools(<<TRUE>>),
          msg |-> "No relative tolerance set."]

\* Tolerance.validate_relative(benchmark_val, test_val) on numbers:
\* err = 0 if both are 0, infinity if only benchmark_val is 0, else
\* abs(diff/benchmark_val); err < relative is decided without dividing.
validate_relative(tol, benchmark_val, test_val) ==
    IF tol.relative # 0
    THEN LET diff == test_val - benchmark_val
             passed == IF benchmark_val = 0 /\ diff = 0 THEN 0 < tol.relative
                       ELSE IF benchmark_val = 0 THEN FALSE
                       ELSE Abs(diff) < tol.relative * Abs(benchmark_val)
         IN  [status |-> StatusOfBools(<<passed>>),
              msg |-> IF passed THEN "" ELSE "relative error greater than"]
    ELSE [status |-> StatusOfBools(<<TRUE>>),
          msg |-> "No relative tolerance set."]

\* A validate that requires both thresholds whatever strict is.
validate_numbers_both(tol, test_val, benchmark_val) ==
    LET a == validate_absolute(tol, benchmark_val, test_val)
        r == validate_relative(tol, benchmark_val, test_val)
    IN  [status |-> StatusAdd(r.status, a.status),
         msg |-> (IF tol.absolute # 0 /\ a.msg # "" THEN <<a.msg>> ELSE <<>>)
                 \o (IF tol.relative # 0 /\ r.msg # "" THEN <<r.msg>> ELSE <<>>)]

\* The body of the try block of Tolerance.validate once neither isnan call
\* has raised and neither value is a NaN.
validate_numbers(tol, test_val, benchmark_val) ==
    LET a == validate_absolute(tol, benchmark_val, test_val)
        r == validate_relative(tol, benchmark_val, test_val)
        st == IF tol.absolute # 0 /\ tol.relative # 0 /\ ~tol.strict
              THEN StatusOfBools(<<r.status = PASSED, a.status = PASSED>>)
              ELSE StatusAdd(r.status, a.status)
    IN  [status |-> st,
         msg |-> (IF tol.absolute # 0 /\ a.msg # "" THEN <<a.msg>> ELSE <<>>)
                 \o (IF tol.relative # 0 /\ r.msg # "" THEN <<r.msg>> ELSE <<>>)]

\* Tolerance.validate(test_val, benchmark_val, key).  isnan of a text value
\* raises TypeError, which sends validate to the equality test.
validate(tol, test_val, benchmark_val, key) ==
    LET res ==
          IF test_val.kind = "str"
          THEN \* isnan(test_val) raises TypeError
               IF test_val # benchmark_val
               THEN [status |-> FAILED, msg |-> <<"values are different.">>]
               ELSE [status |-> PASSED, msg |-> <<"values are within tolerance.">>]
          ELSE IF test_val.kind = "nan"
          THEN [status |-> FAILED, msg |-> <<"cannot compare NaNs.">>]
          ELSE IF benchmark_val.kind = "str"
          THEN \* isnan(benchmark_val) raises TypeError; the values differ
               [status |-> FAILED, msg |-> <<"values are different.">>]
          ELSE IF benchmark_val.kind = "nan"
          THEN [status |-> FAILED, msg |-> <<"cannot compare NaNs.">>]
          ELSE validate_numbers(tol, test_val.n, benchmark_val.n)
    IN  [status |-> res.status,
         msg |-> IF key # "" /\ res.msg # <<>> THEN <<key>> \o res.msg
                 ELSE res.msg]

-----------------------------------------------------------------------------
(* validation.compare_data *)

Keys == {"energy", "time"}

\* The order in which a set of keys is iterated (any fixed order: the status
\* is a maximum and does not depend on it).
KeyOrder == <<"energy", "time">>

KeySeq(S) == SelectSeq(KeyOrder, LAMBDA k : k \in S)

Min(a, b) == IF a <= b THEN a ELSE b

\* status += key_status, and msg.append(err) for a value that did not pass,
\* over zip(benchmark[param], test[param]) from position i on.  validate is
\* called as tol.validate(bench_value, test_value, param).
RECURSIVE compare_values(_, _, _, _, _, _)
compare_values(tol, bench_seq, test_seq, param, i, acc) ==
    IF i > Min(Len(bench_seq), Len(test_seq)) THEN acc
    ELSE LET r == validate(tol, bench_seq[i], test_seq[i], param)
         IN  compare_values(tol, bench_seq, test_seq, param, i + 1,
                 [status |-> StatusAdd(acc.status, r.status),
                  msg |-> IF r.status # PASSED /\ r.msg # <<>>
                          THEN Append(acc.msg, [text |-> r.msg, keys |-> {param}])
                          ELSE acc.msg])

\* for param in (bench_params & test_params): ...
RECURSIVE compare_params(_, _, _, _, _, _)
compare_params(params, benchmark, test, default_tolerance, tolerances, acc) ==
    IF params = <<>> THEN acc
    ELSE LET param == Head(params)
             tol == IF param \in DOMAIN tolerances THEN tolerances[param]
                    ELSE default_tolerance
         IN  compare_params(Tail(params), benchmark, test, default_tolerance,
                 tolerances,
                 compare_values(tol, benchmark[param], test[param], param, 1, acc))

\* compare_data(benchmark, test, default_tolerance, tolerances, ignore_fields):
\* returns the tuple (comparable, status, msg).
compare_data(benchmark, test, default_tolerance, tolerances, ignore_fields) ==
    LET ignored_params == ignore_fields
        bench_params == (DOMAIN benchmark) \ ignored_params
        test_params == (DOMAIN test) \ ignored_params
        comparable == (bench_params = test_params)
        bench_only == bench_params \ test_params
        test_only == test_params \ bench_params
        start ==
          IF ~comparable
          THEN [status |-> StatusOfBools(<<FALSE>>),
                msg |-> <<[text |-> <<"Different sets of data extracted from benchmark and test.">>,
                           keys |-> {}]>>
                        \o (IF bench_only # {}
                            THEN <<[text |-> <<"Data only in benchmark">>,
                                    keys |-> bench_only]>>
                            ELSE <<>>)
                        \o (IF test_only # {}
                            THEN <<[text |-> <<"Data only in test">>,
                                    keys |-> test_only]>>
                            ELSE <<>>)]
          ELSE [status |-> StatusOfBools(<<>>), msg |-> <<>>]
        end == compare_params(KeySeq(bench_params \cap test_params), benchmark,
                              test, default_tolerance, tolerances, start)
    IN  <<comparable, end.status, end.msg>>

-----------------------------------------------------------------------------
(* util.py: testcode_filename, extract_tagged_data, dict_table_string.      *)
(* A string is a sequence of characters; ".inp=" and ".args=" are taken as  *)
(* single characters.  A line is the sequence of its words (line.split()).  *)

\* A testcode_filename that appends the input without its '.inp=' marker.
testcode_filename_unmarked(stem, file_id, inp, args) ==
    stem \o <<".">> \o file_id \o inp
        \o (IF args # <<>>
            THEN <<".args=">> \o [i \in 1..Len(args) |->
                                    IF args[i] = " " THEN "_" ELSE args[i]]
            ELSE <<>>)

\* util.testcode_filename(stem, file_id, inp, args)
testcode_filename(stem, file_id, inp, args) ==
    LET filename == stem \o <<".">> \o file_id
        with_inp == IF inp # <<>> THEN filename \o <<".inp=">> \o inp
                    ELSE filename
        args_string == [i \in 1..Len(args) |->
                          IF args[i] = " " THEN "_" ELSE args[i]]
    IN  IF args # <<>> THEN with_inp \o <<".args=">> \o args_string
        ELSE with_inp

\* try_floatify(word) != word: the word is the text of a number.
IsNumber(word) == word \in {"1", "2"}

\* extract_tagged_data, lines 46-51: the words after the tag up to the first
\* number: [key, val]; val is the number, or the last word if there is no
\* number ("" stands for val left as it was when no word follows the tag).
RECURSIVE key_words(_, _, _)
key_words(words, i, key) ==
    IF i > Len(words) THEN [key |-> key, val |-> IF i > 2 THEN words[i - 1] ELSE ""]
    ELSE IF IsNumber(words[i]) THEN [key |-> key, val |-> words[i]]
    ELSE key_words(words, i + 1, Append(key, words[i]))

\* The last character of word is '=' or ':' (words are "E", "E:", ":", "=").
EndsWithMark(word) == word \in {"E:", ":", "="}

\* word[:-1] for a word that ends with a mark.
StripMark(word) == IF word = "E:" THEN "E" ELSE ""

\* extract_tagged_data, lines 52-58, on the list key: the exception raised
\* ("none": none) and the key, the list of the words '_'.join joins.
tagged_key(key) ==
    IF key = <<>> THEN [exc |-> "IndexError", key |-> <<>>]   \* key[-1] of []
    ELSE LET popped == IF key[Len(key)] \in {"=", ":"}
                       THEN SubSeq(key, 1, Len(key) - 1) ELSE key
         IN  IF popped = <<>>
             THEN [exc |-> "IndexError", key |-> <<>>]        \* key[-1] of ''
             ELSE LET last == popped[Len(popped)]
                      stripped == IF EndsWithMark(last)
                                  THEN IF StripMark(last) = "" /\ Len(popped) = 1
                                       THEN <<>>
                                       ELSE [popped EXCEPT ![Len(popped)] =
                                               StripMark(last)]
                                  ELSE popped
                  IN  [exc |-> "none",
                       key |-> IF stripped = <<>> THEN <<"data">> ELSE stripped]

\* data[key].append(val), or data[key] = [val] for a new key.
append_value(data, key, val) ==
    IF key \in DOMAIN data THEN [data EXCEPT ![key] = Append(@, val)]
    ELSE data @@ (key :> <<val>>)

\* extract_tagged_data, lines 38-62, from line i on: the exception raised
\* and the data collected.  A line matches when its first word is the tag.
RECURSIVE tagged_lines(_, _, _, _)
tagged_lines(data_tag, lines, i, data) ==
    IF i > Len(lines) THEN [exc |-> "none", data |-> data]
    ELSE IF lines[i][1] # data_tag
    THEN tagged_lines(data_tag, lines, i + 1, data)
    ELSE LET kv == key_words(lines[i], 2, <<>>)
             k == tagged_key(kv.key)
         IN  IF k.exc # "none" THEN [exc |-> k.exc, data |-> << >>]
             ELSE tagged_lines(data_tag, lines, i + 1,
                               append_value(data, k.key, kv.val))

\* util.extract_tagged_data(data_tag, filename), the file existing or not
\* and holding lines.
extract_tagged_data(data_tag, exists, lines) ==
    IF ~exists THEN [exc |-> "RunError", data |-> << >>]
    ELSE tagged_lines(data_tag, lines, 1, << >>)

\* A table cell that overwrites what its heading has collected.
table_overwrite(data_dict, heading, val) ==
    [data_dict EXCEPT ![heading] = <<val>>]

\* dict_table_string, line 109: data_dict[head[ind]].append(val)
table_append(data_dict, heading, val) ==
    [data_dict EXCEPT ![heading] = Append(@, val)]

\* dict_table_string, lines 104-109: the cells of a data row from ind on.
RECURSIVE table_row(_, _, _, _)
table_row(dline, head, ind, data_dict) ==
    IF ind > Len(dline) THEN [exc |-> "none", data |-> data_dict]
    ELSE IF head = <<"unbound">> THEN [exc |-> "UnboundLocalError", data |-> << >>]
    ELSE IF ind > Len(head) THEN [exc |-> "IndexError", data |-> << >>]
    ELSE table_row(dline, head, ind + 1,
                   table_append(data_dict, head[ind], dline[ind]))

\* dict_table_string, lines 100-102: the keys of a header row.
table_head(head, data_dict) ==
    [k \in (DOMAIN data_dict) \cup {head[i] : i \in 1..Len(head)} |->
        IF k \in DOMAIN data_dict THEN data_dict[k] ELSE <<>>]

\* dict_table_string, lines 90-109, from row i on.  A cell is text or a
\* number; a row with no number in it is a header.
RECURSIVE table_rows(_, _, _, _)
table_rows(rows, i, head, data_dict) ==
    IF i > Len(rows) THEN [exc |-> "none", data |-> data_dict]
    ELSE IF \A j \in 1..Len(rows[i]) : rows[i][j].kind # "num"
    THEN table_rows(rows, i + 1, rows[i], table_head(rows[i], data_dict))
    ELSE LET r == table_row(rows[i], head, 1, data_dict)
         IN  IF r.exc # "none" THEN r
             ELSE table_rows(rows, i + 1, head, r.data)

\* util.dict_table_string(table_string), the table given as its rows of
\* cells after try_floatify.
dict_table_string(rows) == table_rows(rows, 1, <<"unbound">>, << >>)

-----------------------------------------------------------------------------
(* The process: the main thread (thread 0) and one worker thread per Test. *)

Workers == 1..NTests
Threads == 0..NTests

\* The directory the process is started in is 0; Test t has path t.
path(t) == t

NoFrame ==
    [inside |-> FALSE,  \* the thread is in an in_dir-decorated function
     saved |-> 0,       \* cwd of decorated_func: os.getcwd() on entry
     ind |-> 0,         \* run_test: ind (from 1); compare_tests: the Test
     cur |-> 0,         \* the pair (test_input, test_arg) is bound to
     retcode |-> <<>>,  \* what job.wait() returned (<<>>: None or not yet)
     nskipped |-> 0,    \* compare_tests: nskipped
     exc |-> ""]        \* the exception that ended the thread, if one did

\* Test.__init__: status = dict((inp_arg, [False, False]) ...)
InitStatus(ninputs) == [c \in 1..ninputs |-> <<FALSE, FALSE>>]

\* An _update_status that stores the outcome of the last verification.
update_status_last(st, passed, inp_arg) ==
    [st EXCEPT ![inp_arg] = <<TRUE, passed>>]

\* Test._update_status(passed, inp_arg)
update_status(st, passed, inp_arg) ==
    [st EXCEPT ![inp_arg] = <<TRUE, IF passed THEN TRUE ELSE st[inp_arg][2]>>]

\* Test.get_status: (npassed, nran), the numbers of pairs whose passed flag
\* and whose attempted flag are set.
get_status(st) ==
    <<Cardinality({c \in DOMAIN st : st[c][2]}),
      Cardinality({c \in DOMAIN st : st[c][1]})>>

\* end_status: npassed and nran summed over the first n Tests.
RECURSIVE end_status_sum(_, _)
end_status_sum(sts, n) ==
    IF n = 0 THEN <<0, 0>>
    ELSE LET rest == end_status_sum(sts, n - 1)
             one == get_status(sts[n])
         IN  <<rest[1] + one[1], rest[2] + one[2]>>

\* end_status: the counts (npassed, nran) it prints.
end_status(sts) == end_status_sum(sts, Len(sts))

\* The tolerance of the user configuration: parse_tolerance_tuple never
\* passes strict, so a configured Tolerance is strict.
default_tolerance == Tolerance(1, 0, TRUE)
tolerances == << >>

\* What extraction can return for (bench_out, test_out).
RunData ==
    LET e1 == "energy" :> <<Num(1)>>
        e2 == "energy" :> <<Num(2)>>
        t1 == "time" :> <<Num(1)>>
        t2 == "time" :> <<Num(2)>>
    IN  { <<e1, e1>>, <<e1, e2>>, <<e1 @@ t1, e1>>, <<e1, e1 @@ t1>>,
          <<e1 @@ t1, e1 @@ t2>> }

\* The configurations of a run.  Three families keep the state space small:
\* (A) every Test has one pair and only "run" is asked for, with any number
\*     of threads, locally or on a cluster;
\* (B) a local run with nthreads = 1 (one worker at a time), Test 1 with
\*     1..MaxInputs pairs, and any of the action lists;
\* (C) a run on a cluster, Test 1 with 1..MaxInputs pairs.
\* On a cluster nthreads and output are not read by what is modelled
\* (nthreads is overwritten, the output is moved by the submitted commands),
\* and run_test never reads ignore_fields: they are fixed there.
TestsWith(n, o) ==
    [t \in Workers |-> [ninputs |-> IF t = 1 THEN n ELSE 1, output |-> o]]

ConfigInit ==
    /\ test_program \in {[verify |-> v, ignore_fields |-> {}] : v \in BOOLEAN}
    /\ \/ /\ cluster_queue = FALSE
          /\ nthreads \in 1..MaxThreads
          /\ actions = {"run"}
          /\ \E o \in BOOLEAN : tests = TestsWith(1, o)
       \/ /\ cluster_queue = FALSE
          /\ nthreads = 1
          /\ actions \in {{"run"}, {"compare"}, {"run", "compare"}}
          /\ \E n \in 1..MaxInputs, o \in BOOLEAN : tests = TestsWith(n, o)
       \/ /\ cluster_queue = TRUE
          /\ nthreads = 1
          /\ actions = {"run"}
          /\ \E n \in 1..MaxInputs : tests = TestsWith(n, FALSE)

Init ==
    /\ ConfigInit
    /\ status = [t \in Workers |-> InitStatus(tests[t].ninputs)]
    /\ lock = FALSE
    /\ cwd = 0
    /\ pc = [th \in Threads |->
               IF th = 0
               THEN IF "run" \in actions THEN "run_tests" ELSE "compare_tests"
               ELSE "new"]
    /\ frame = [th \in Threads |-> IF th = 0 THEN [NoFrame EXCEPT !.ind = 1, !.cur = 1]
                                   ELSE NoFrame]
    /\ fn_args = <<>>
    /\ fn_ret = <<>>

-----------------------------------------------------------------------------
(* _lock.Lock *)

\* An acquire that takes no lock at all.
acquire_nothing == lock' = lock

\* An acquire that does not wait for the lock to be free.
acquire_nowait == lock' = TRUE

\* with_lock: self.lock.acquire() blocks while the lock is held.
acquire == ~lock /\ lock' = TRUE

\* with_lock: finally: self.lock.release()
release == lock' = FALSE

LockedOps ==
    {"move_old_output_files", "start_job", "move_output_to_test_output",
     "verify_job"}

\* in_dir: the thread enters decorated_func for the operation at its pc:
\* acquire, cwd = os.getcwd(), os.chdir(ddir).
Enter(th, ddir) ==
    /\ pc[th] \in LockedOps
    /\ ~frame[th].inside
    /\ acquire
    /\ frame' = [frame EXCEPT ![th].inside = TRUE, ![th].saved = cwd]
    /\ cwd' = ddir
    /\ UNCHANGED <<status, pc>>

\* in_dir: func returned: os.chdir(cwd); return val; then with_lock releases.
Return(th) ==
    /\ cwd' = frame[th].saved
    /\ release

\* An exit by exception that does not release the lock.
RaiseHolding(th) ==
    /\ cwd' = cwd
    /\ lock' = lock

\* in_dir: func raised: decorated_func is left at once and with_lock's
\* finally releases the lock; os.chdir(cwd) is not reached.
Raise(th) ==
    /\ cwd' = cwd
    /\ release

\* The frame f of a thread that has left decorated_func.
Outside(f) == [f EXCEPT !.inside = FALSE, !.saved = 0]

-----------------------------------------------------------------------------
(* testcode2.Test *)

\* What the environment answers to the call of the external verifier
\* (verify_job_external) or to extract_data: Popen's OSError or the exit of
\* the verifier; a RunError of the extraction or the two mappings.
VerifyOutcomes ==
    IF test_program.verify
    THEN {[kind |-> k, data |-> <<>>] : k \in {"OSError", "zero", "nonzero"}}
    ELSE {[kind |-> "RunError", data |-> <<>>]}
         \cup {[kind |-> "data", data |-> d] : d \in RunData}

\* _verify_job: validation.compare_data(bench_out, test_out,
\* self.default_tolerance, self.tolerances): ignore_fields is left to its
\* default, None.
verify_job_compare(bench_out, test_out) ==
    compare_data(bench_out, test_out, default_tolerance, tolerances, {})

\* Test._verify_job(input_file, args) on the status st of its Test, given the
\* environment's answer r: the exception it raises ("none": it returns) and
\* the status it leaves.
verify_job(st, inp_arg, r) ==
    IF test_program.verify
    THEN \* verify_job_external: OSError of Popen -> RunError; else
         \* passed = (returncode == 0)
         IF r.kind = "OSError"
         THEN [exc |-> "RunError", st |-> st]
         ELSE [exc |-> "none", st |-> update_status(st, r.kind = "zero", inp_arg)]
    ELSE IF r.kind = "RunError"
    THEN \* extract_data raised
         [exc |-> "RunError", st |-> st]
    ELSE LET ret == verify_job_compare(r.data[1], r.data[2])
         IN  IF Len(ret) # 2
             THEN \* (status, msg) = <a tuple of three>: ValueError
                  [exc |-> "ValueError", st |-> st]
             ELSE \* passed = status == 0: a Status object equals no integer
                  [exc |-> "none", st |-> update_status(st, FALSE, inp_arg)]

ninputs(t) == tests[t].ninputs

\* run_test: except exceptions.RunError: self._update_status(False,
\* (test_input, test_arg)) and run_test returns; any other exception ends
\* the thread with a traceback.  f is the frame when the exception is raised.
Handle(t, exc, st, f) ==
    /\ status' = [status EXCEPT ![t] =
                    IF exc = "RunError" THEN update_status(st, FALSE, f.cur) ELSE st]
    /\ pc' = [pc EXCEPT ![t] = IF exc = "RunError" THEN "done" ELSE "crashed"]
    /\ frame' = [frame EXCEPT ![t] =
                   IF exc = "RunError" THEN NoFrame ELSE [NoFrame EXCEPT !.exc = exc]]

\* run_test, lines 193-203: the loop that constructs the commands; missing is
\* the first pair whose input file does not exist (0: none).
Construct(t) ==
    /\ pc[t] = "run_test"
    /\ \E missing \in 0..ninputs(t) :
         IF missing > 0
         THEN Handle(t, "RunError", status[t], [frame[t] EXCEPT !.cur = missing])
         ELSE /\ frame' = [frame EXCEPT ![t].cur = ninputs(t)]
              /\ pc' = [pc EXCEPT ![t] = "move_old_output_files"]
              /\ UNCHANGED status
    /\ UNCHANGED <<lock, cwd, config_vars, fn_vars>>

\* A worker enters the locked operation at its pc, in the Test's path.
WorkerEnter(t) ==
    /\ t \in Workers
    /\ Enter(t, path(t))
    /\ UNCHANGED <<config_vars, fn_vars>>

\* _move_old_output_files returns; then the loop over test_cmds starts.
MoveOldOutputFiles(t) ==
    /\ pc[t] = "move_old_output_files" /\ frame[t].inside
    /\ Return(t)
    /\ frame' = [frame EXCEPT ![t] = Outside([frame[t] EXCEPT !.ind = 1])]
    /\ pc' = [pc EXCEPT ![t] = "start_job"]
    /\ UNCHANGED <<status, config_vars, fn_vars>>

\* A _start_job that waits for the job it started: the thread goes to the
\* wait still inside the locked function.
StartJobAndWait(t) ==
    /\ pc[t] = "start_job" /\ frame[t].inside
    /\ \E ok \in BOOLEAN :
         IF ok
         THEN /\ pc' = [pc EXCEPT ![t] = "wait"]
              /\ UNCHANGED <<status, lock, cwd, frame>>
         ELSE /\ Raise(t)
              /\ Handle(t, "RunError", status[t], frame[t])
    /\ UNCHANGED <<config_vars, fn_vars>>

\* _start_job: the job is started, or a RunError (Popen's OSError, a missing
\* submit template, a failed spawn of qsub).
StartJob(t) ==
    /\ pc[t] = "start_job" /\ frame[t].inside
    /\ \E ok \in BOOLEAN :
         IF ok
         THEN /\ Return(t)
              /\ frame' = [frame EXCEPT ![t] = Outside(frame[t])]
              /\ pc' = [pc EXCEPT ![t] = "wait"]
              /\ UNCHANGED status
         ELSE /\ Raise(t)
              /\ Handle(t, "RunError", status[t], frame[t])
    /\ UNCHANGED <<config_vars, fn_vars>>

\* A run_test that starts the next job as soon as the last one has ended and
\* verifies only after the last job.
WaitThenNextJob(t) ==
    /\ pc[t] = "wait"
    /\ IF ~cluster_queue
       THEN \E rc \in {0, 1} :
              IF frame[t].ind < ninputs(t)
              THEN /\ frame' = [frame EXCEPT ![t].ind = frame[t].ind + 1]
                   /\ pc' = [pc EXCEPT ![t] = "start_job"]
              ELSE /\ frame' = [frame EXCEPT ![t].retcode = <<rc>>,
                                             ![t].cur = frame[t].ind]
                   /\ pc' = [pc EXCEPT ![t] = "verify_job"]
       ELSE /\ frame' = [frame EXCEPT ![t].cur = 1]
            /\ pc' = [pc EXCEPT ![t] = "verify_job"]
    /\ UNCHANGED <<status, lock, cwd, config_vars, fn_vars>>

\* job.wait() returns.  Locally it is Popen.wait(), whose return code
\* run_test drops; then (test_input, test_arg) = self.inputs_args[ind].  On a
\* cluster it is ClusterQueueJob.wait(), in which Popen of qstat can raise
\* OSError; then the loop over inputs_args starts.
Wait(t) ==
    /\ pc[t] = "wait"
    /\ IF ~cluster_queue
       THEN \E rc \in {0, 1} :
              /\ frame' = [frame EXCEPT ![t].retcode = <<rc>>, ![t].cur = frame[t].ind]
              /\ pc' = [pc EXCEPT ![t] =
                          IF tests[t].output THEN "move_output_to_test_output"
                          ELSE "verify_job"]
       ELSE \E ok \in BOOLEAN :
              IF ok
              THEN /\ frame' = [frame EXCEPT ![t].cur = 1]
                   /\ pc' = [pc EXCEPT ![t] = "verify_job"]
              ELSE /\ pc' = [pc EXCEPT ![t] = "crashed"]
                   /\ frame' = [frame EXCEPT ![t] = [NoFrame EXCEPT !.exc = "OSError"]]
    /\ UNCHANGED <<status, lock, cwd, config_vars, fn_vars>>

\* _move_output_to_test_output: glob.glob(self.output) matches nfiles files.
MoveOutput(t) ==
    /\ pc[t] = "move_output_to_test_output" /\ frame[t].inside
    /\ \E nfiles \in 0..2 :
         IF nfiles = 1
         THEN /\ Return(t)
              /\ frame' = [frame EXCEPT ![t] = Outside(frame[t])]
              /\ pc' = [pc EXCEPT ![t] = "verify_job"]
              /\ UNCHANGED status
         ELSE /\ Raise(t)
              /\ Handle(t, "RunError", status[t], frame[t])
    /\ UNCHANGED <<config_vars, fn_vars>>

\* run_test after verify_job returned: the next job (locally), the next pair
\* (on a cluster), or the end of run_test.
AfterVerify(t, f) ==
    IF ~cluster_queue
    THEN IF f.ind < ninputs(t)
         THEN [pc |-> "start_job", f |-> [f EXCEPT !.ind = f.ind + 1, !.retcode = <<>>]]
         ELSE [pc |-> "done", f |-> NoFrame]
    ELSE IF f.cur < ninputs(t)
         THEN [pc |-> "verify_job", f |-> [f EXCEPT !.cur = f.cur + 1]]
         ELSE [pc |-> "done", f |-> NoFrame]

\* verify_job called by run_test.
VerifyJob(t) ==
    /\ t \in Workers
    /\ pc[t] = "verify_job" /\ frame[t].inside
    /\ \E r \in VerifyOutcomes :
         LET v == verify_job(status[t], frame[t].cur, r)
             f == Outside(frame[t])
         IN  IF v.exc = "none"
             THEN /\ Return(t)
                  /\ frame' = [frame EXCEPT ![t] = AfterVerify(t, f).f]
                  /\ pc' = [pc EXCEPT ![t] = AfterVerify(t, f).pc]
                  /\ status' = [status EXCEPT ![t] = v.st]
             ELSE /\ Raise(t)
                  /\ Handle(t, v.exc, v.st, f)
    /\ UNCHANGED <<config_vars, fn_vars>>

-----------------------------------------------------------------------------
(* bin/testcode.py: run_tests, compare_tests and main *)

\* run_tests: if cluster_queue: nthreads = len(tests)
EffectiveThreads == IF cluster_queue THEN NTests ELSE nthreads

Terminated(t) == pc[t] \in {"done", "crashed"}

\* threading.activeCount() - 1: the threads started and not yet finished,
\* less the main thread.
ActiveWorkers == Cardinality({t \in Workers : pc[t] # "new" /\ ~Terminated(t)})

\* A gate that is open only while nthreads workers are active.
GateOpenWhenFull == ActiveWorkers = EffectiveThreads

\* A gate that lets a job start while no more than nthreads are active.
GateOpenUpTo == ~(ActiveWorkers > EffectiveThreads)

\* while threading.activeCount()-1 == nthreads: time.sleep(0.2)
GateOpen == ActiveWorkers # EffectiveThreads

\* run_tests: job.start() of the next job: behind the gate when nthreads > 1,
\* straight away otherwise.
Start ==
    /\ pc[0] = "run_tests"
    /\ LET t == frame[0].ind
       IN  IF EffectiveThreads > 1
           THEN /\ GateOpen
                /\ pc' = [pc EXCEPT ![t] = "run_test",
                                    ![0] = IF t < NTests THEN "run_tests" ELSE "join"]
                /\ frame' = [frame EXCEPT ![0].ind = IF t < NTests THEN t + 1 ELSE 1]
           ELSE /\ pc' = [pc EXCEPT ![t] = "run_test", ![0] = "join"]
                /\ UNCHANGED frame
    /\ UNCHANGED <<status, lock, cwd, config_vars, fn_vars>>

\* A join that returns whether or not the thread has ended.
JoinNoWait ==
    /\ pc[0] = "join"
    /\ LET t == frame[0].ind
       IN  /\ pc' = [pc EXCEPT ![0] =
                       IF t = NTests THEN "end_status"
                       ELSE IF EffectiveThreads > 1 THEN "join" ELSE "run_tests"]
           /\ frame' = [frame EXCEPT ![0].ind = IF t < NTests THEN t + 1 ELSE 1]
    /\ UNCHANGED <<status, lock, cwd, config_vars, fn_vars>>

\* run_tests: job.join() returns once the thread has ended; then the next
\* join (nthreads > 1) or the next start, and after the last job end_status.
Join ==
    /\ pc[0] = "join"
    /\ LET t == frame[0].ind
       IN  /\ Terminated(t)
           /\ pc' = [pc EXCEPT ![0] =
                       IF t = NTests THEN "end_status"
                       ELSE IF EffectiveThreads > 1 THEN "join" ELSE "run_tests"]
           /\ frame' = [frame EXCEPT ![0].ind = IF t < NTests THEN t + 1 ELSE 1]
    /\ UNCHANGED <<status, lock, cwd, config_vars, fn_vars>>

\* main: end_status after run_tests, then compare_tests if asked for.
EndStatus ==
    /\ pc[0] = "end_status"
    /\ pc' = [pc EXCEPT ![0] = IF "compare" \in actions THEN "compare_tests"
                               ELSE "exit"]
    /\ UNCHANGED <<status, lock, cwd, frame, config_vars, fn_vars>>

\* compare_tests: the loops move to the next pair, or end.
NextPair(f) ==
    IF f.cur < ninputs(f.ind)
    THEN [pc |-> "compare_tests", f |-> [f EXCEPT !.cur = f.cur + 1]]
    ELSE IF f.ind < NTests
    THEN [pc |-> "compare_tests", f |-> [f EXCEPT !.ind = f.ind + 1, !.cur = 1]]
    ELSE [pc |-> "exit", f |-> f]

\* compare_tests: os.path.exists(test_file): verify the pair, or skip it.
CompareTests ==
    /\ pc[0] = "compare_tests"
    /\ \E exists \in BOOLEAN :
         IF exists
         THEN /\ pc' = [pc EXCEPT ![0] = "verify_job"]
              /\ UNCHANGED frame
         ELSE LET f == [frame[0] EXCEPT !.nskipped = frame[0].nskipped + 1]
              IN  /\ pc' = [pc EXCEPT ![0] = NextPair(f).pc]
                  /\ frame' = [frame EXCEPT ![0] = NextPair(f).f]
    /\ UNCHANGED <<status, lock, cwd, config_vars, fn_vars>>

\* The main thread enters test.verify_job, in the path of the Test.
MainEnter ==
    /\ Enter(0, path(frame[0].ind))
    /\ UNCHANGED <<config_vars, fn_vars>>

\* test.verify_job called by compare_tests.  compare_tests catches
\* nothing: an exception leaves compare_tests and main.
MainVerifyJob ==
    /\ pc[0] = "verify_job" /\ frame[0].inside
    /\ \E r \in VerifyOutcomes :
         LET t == frame[0].ind
             v == verify_job(status[t], frame[0].cur, r)
             f == Outside(frame[0])
         IN  /\ status' = [status EXCEPT ![t] = v.st]
             /\ IF v.exc = "none"
                THEN /\ Return(0)
                     /\ frame' = [frame EXCEPT ![0] = NextPair(f).f]
                     /\ pc' = [pc EXCEPT ![0] = NextPair(f).pc]
                ELSE /\ Raise(0)
                     /\ frame' = [frame EXCEPT ![0] = [f EXCEPT !.exc = v.exc]]
                     /\ pc' = [pc EXCEPT ![0] = "aborted"]
    /\ UNCHANGED <<config_vars, fn_vars>>

Next ==
    \/ Start
    \/ Join
    \/ EndStatus
    \/ CompareTests
    \/ MainEnter
    \/ MainVerifyJob
    \/ \E t \in Workers : Construct(t)
    \/ \E t \in Workers : WorkerEnter(t)
    \/ \E t \in Workers : MoveOldOutputFiles(t)
    \/ \E t \in Workers : StartJob(t)
    \/ \E t \in Workers : Wait(t)
    \/ \E t \in Workers : MoveOutput(t)
    \/ \E t \in Workers : VerifyJob(t)

Spec == Init /\ [][Next]_vars

\* Every locked operation a thread is in terminates, and a thread that
\* waits in acquire() gets the lock if it stays free.
LockFairness ==
    /\ WF_vars(MainEnter) /\ WF_vars(MainVerifyJob)
    /\ \A t \in Workers :
          /\ WF_vars(WorkerEnter(t))
          /\ WF_vars(MoveOldOutputFiles(t))
          /\ WF_vars(StartJob(t))
          /\ WF_vars(MoveOutput(t))
          /\ WF_vars(VerifyJob(t))

\* The runs checked for liveness: those with the external verifier and one
\* pair in every Test.
InitLive ==
    /\ Init
    /\ test_program.verify = TRUE
    /\ \A t \in Workers : tests[t].ninputs = 1

\* The run in which every locked operation terminates.
SpecLock == InitLive /\ [][Next]_vars /\ LockFairness

\* Besides, every thread that can take a step does: the job a worker waits
\* for ends, and run_tests and run_test go on.
RunFairness ==
    /\ LockFairness
    /\ WF_vars(Start) /\ WF_vars(Join)
    /\ \A t \in Workers : WF_vars(Construct(t)) /\ WF_vars(Wait(t))

\* The run in which every job ends and every locked operation terminates.
SpecFair == InitLive /\ [][Next]_vars /\ RunFairness

\* exceptions.signal_handler: the interrupt signal is handled in the main
\* thread, where sys.exit(1) raises SystemExit; nothing catches it, and it
\* leaves a locked operation the main thread is in as any exception does.
\* The worker threads are not daemons: they go on, and the interpreter
\* waits for them before the process ends.  When SystemExit is raised out
\* of job.join() the interpreter either does that or, taking the joined
\* thread for finished, ends the process at once (ends): which of the two
\* depends on the version of the interpreter.
Interrupt ==
    /\ pc[0] \notin {"exit", "aborted", "interrupted"}
    /\ \E ends \in (IF pc[0] = "join" THEN BOOLEAN ELSE {FALSE}) :
         LET killed == {t \in Workers : ends /\ pc[t] # "new" /\ ~Terminated(t)}
         IN  /\ pc' = [th \in Threads |->
                         IF th = 0 THEN "interrupted"
                         ELSE IF th \in killed THEN "killed" ELSE pc[th]]
             /\ frame' = [th \in Threads |->
                            IF th = 0 THEN [NoFrame EXCEPT !.exc = "SystemExit"]
                            ELSE IF th \in killed THEN NoFrame ELSE frame[th]]
    /\ IF frame[0].inside THEN Raise(0) ELSE UNCHANGED <<lock, cwd>>
    /\ UNCHANGED <<status, config_vars, fn_vars>>

NextInterrupt == Next \/ Interrupt

\* The run with an interrupt signal that can arrive at any moment.
SpecInterrupt == Init /\ [][NextInterrupt]_vars

-----------------------------------------------------------------------------
(* Calls of the functions of validation.py and of Test.verify_job on drawn  *)
(* arguments.  No thread runs: the process variables keep their values.     *)

NoRun ==
    /\ nthreads = 1
    /\ cluster_queue = FALSE
    /\ actions = {}
    /\ tests = TestsWith(1, FALSE)
    /\ status = [t \in Workers |-> InitStatus(1)]
    /\ lock = FALSE
    /\ cwd = 0
    /\ pc = [th \in Threads |-> IF th = 0 THEN "exit" ELSE "new"]
    /\ frame = [th \in Threads |-> NoFrame]
    /\ fn_ret = <<>>

\* The mappings compared: "energy" with 1..CmpLen values, "time" absent or
\* with one value.
CmpValues == {Num(i) : i \in 0..CmpVal}
CmpSeqs == UNION {[1..n -> CmpValues] : n \in 1..CmpLen}
Mappings ==
    {"energy" :> e : e \in CmpSeqs}
        \cup {("energy" :> e) @@ ("time" :> <<Num(1)>>) : e \in CmpSeqs}

\* The Tolerance objects config.parse_tolerance_tuple makes: strict.
ConfigTolerances == {tol \in Tolerances : tol.strict}

\* ---- Status.__add__ ----
InitStatusAdd ==
    /\ NoRun
    /\ test_program = [verify |-> FALSE, ignore_fields |-> {}]
    /\ fn_args \in [a : StatusValues, b : StatusValues, c : StatusValues]

\* a + b, b + a, (a + b) + c and a + (b + c) are computed.
StatusAddCall ==
    /\ fn_ret = <<>>
    /\ fn_ret' = <<[ab |-> StatusAdd(fn_args.a, fn_args.b),
                    ba |-> StatusAdd(fn_args.b, fn_args.a),
                    ab_c |-> StatusAdd(StatusAdd(fn_args.a, fn_args.b), fn_args.c),
                    a_bc |-> StatusAdd(fn_args.a, StatusAdd(fn_args.b, fn_args.c))]>>
    /\ UNCHANGED <<fn_args, config_vars, run_vars>>

SpecStatus == InitStatusAdd /\ [][StatusAddCall]_vars

\* ---- Test.run_test, step by step, for one Test ----
\* The input of a pair is not named (""), a file that exists ("present") or
\* one that does not ("absent").  The text of a command is the sequence of
\* its lines; the command of pair i is one line, [cmd |-> i, mv |-> FALSE].
\* events is the list of the operations run_test has called.

\* A check of the input of the first pair only.
input_missing_first(inputs, i) == i = 1 /\ inputs[i] = "absent"

\* run_test, lines 194-195: test_input and not os.path.exists(...)
input_missing(inputs, i) == inputs[i] = "absent"

\* A submission of every command as a job of its own.
cluster_cmds_separate(test_cmds, output) ==
    [i \in 1..Len(test_cmds) |-> <<[test_cmds[i][1] EXCEPT !.mv = output]>>]

\* run_test, lines 210-221: on a cluster '; mv out test_file' is added to
\* every command when self.output is set, and test_cmds becomes the one
\* command '\n'.join(test_cmds).
cluster_cmds(test_cmds, output) ==
    << [i \in 1..Len(test_cmds) |-> [test_cmds[i][1] EXCEPT !.mv = output]] >>

Event(op, pair, cmd) == [op |-> op, pair |-> pair, cmd |-> cmd]

InitRunTest ==
    /\ NoRun
    /\ test_program = [verify |-> FALSE, ignore_fields |-> {}]
    /\ fn_args \in
         UNION {[inputs : [1..n -> {"", "present", "absent"}],
                 cluster_queue : BOOLEAN, output : BOOLEAN] : n \in 1..MaxInputs}

\* run_test is called.
RunTestCall ==
    /\ fn_ret = <<>>
    /\ fn_ret' = <<[pc |-> "construct", ind |-> 1, cur |-> 1, test_cmds |-> <<>>,
                    events |-> <<>>]>>
    /\ UNCHANGED <<fn_args, config_vars, run_vars>>

\* except exceptions.RunError: self._update_status(False, (test_input,
\* test_arg)); run_test returns.
RunTestHandler(c) ==
    [c EXCEPT !.pc = "done",
              !.events = Append(@, Event("_update_status", c.cur, <<>>))]

\* One turn of the loop of lines 193-203 for the pair ind, or its end.
RunTestConstruct ==
    /\ fn_ret # <<>> /\ fn_ret[1].pc = "construct"
    /\ LET c == fn_ret[1]
           n == Len(fn_args.inputs)
       IN  fn_ret' =
             <<IF c.ind > n
               THEN [c EXCEPT !.pc = "move_old_output_files", !.cur = n]
               ELSE IF input_missing(fn_args.inputs, c.ind)
               THEN RunTestHandler([c EXCEPT !.cur = c.ind])
               ELSE [c EXCEPT !.cur = c.ind, !.ind = c.ind + 1,
                              !.test_cmds = Append(@, <<[cmd |-> c.ind,
                                                         mv |-> FALSE]>>)]>>
    /\ UNCHANGED <<fn_args, config_vars, run_vars>>

\* self.move_old_output_files(verbose), then lines 210-221.
RunTestMoveOld ==
    /\ fn_ret # <<>> /\ fn_ret[1].pc = "move_old_output_files"
    /\ LET c == fn_ret[1]
       IN  fn_ret' =
             <<[c EXCEPT !.pc = "start_job", !.ind = 1,
                         !.events = Append(@, Event("move_old_output_files", 0, <<>>)),
                         !.test_cmds = IF fn_args.cluster_queue
                                       THEN cluster_cmds(@, fn_args.output)
                                       ELSE @]>>
    /\ UNCHANGED <<fn_args, config_vars, run_vars>>

\* job = self.start_job(test, cluster_queue, verbose), or its RunError.
RunTestStartJob ==
    /\ fn_ret # <<>> /\ fn_ret[1].pc = "start_job"
    /\ LET c == fn_ret[1]
           started == [c EXCEPT !.events =
                         Append(@, Event("start_job", 0, c.test_cmds[c.ind]))]
       IN  \E ok \in BOOLEAN :
             fn_ret' = <<IF ok THEN [started EXCEPT !.pc = "wait"]
                         ELSE RunTestHandler(started)>>
    /\ UNCHANGED <<fn_args, config_vars, run_vars>>

\* job.wait() returns; on a cluster the loop over inputs_args starts,
\* locally (test_input, test_arg) = self.inputs_args[ind].  On a cluster
\* wait can also raise the OSError of Popen, which run_test does not catch.
RunTestWait ==
    /\ fn_ret # <<>> /\ fn_ret[1].pc = "wait"
    /\ LET c == fn_ret[1]
           waited == [c EXCEPT !.events = Append(@, Event("wait", 0, <<>>))]
       IN  \E ok \in (IF fn_args.cluster_queue THEN BOOLEAN ELSE {TRUE}) :
             fn_ret' =
               <<IF ~ok THEN [waited EXCEPT !.pc = "crashed"]
                 ELSE IF fn_args.cluster_queue
                 THEN [waited EXCEPT !.pc = "verify_job", !.cur = 1]
                 ELSE [waited EXCEPT !.cur = c.ind,
                                     !.pc = IF fn_args.output
                                            THEN "move_output_to_test_output"
                                            ELSE "verify_job"]>>
    /\ UNCHANGED <<fn_args, config_vars, run_vars>>

\* self.move_output_to_test_output(test_files[ind]), or its RunError.
RunTestMoveOutput ==
    /\ fn_ret # <<>> /\ fn_ret[1].pc = "move_output_to_test_output"
    /\ LET c == fn_ret[1]
           moved == [c EXCEPT !.events =
                       Append(@, Event("move_output_to_test_output", c.ind, <<>>))]
       IN  \E ok \in BOOLEAN :
             fn_ret' = <<IF ok THEN [moved EXCEPT !.pc = "verify_job"]
                         ELSE RunTestHandler(moved)>>
    /\ UNCHANGED <<fn_args, config_vars, run_vars>>

\* self.verify_job(test_input, test_arg, verbose), or its RunError; then
\* the next pair (on a cluster), the next job, or the end of run_test.
RunTestVerify ==
    /\ fn_ret # <<>> /\ fn_ret[1].pc = "verify_job"
    /\ LET c == fn_ret[1]
           n == Len(fn_args.inputs)
           verified == [c EXCEPT !.events =
                          Append(@, Event("verify_job", c.cur, <<>>))]
       IN  \E ok \in BOOLEAN :
             fn_ret' =
               <<IF ~ok THEN RunTestHandler(verified)
                 ELSE IF fn_args.cluster_queue /\ c.cur < n
                 THEN [verified EXCEPT !.cur = c.cur + 1]
                 ELSE IF c.ind < Len(c.test_cmds)
                 THEN [verified EXCEPT !.pc = "start_job", !.ind = c.ind + 1]
                 ELSE [verified EXCEPT !.pc = "done"]>>
    /\ UNCHANGED <<fn_args, config_vars, run_vars>>

NextRunTest ==
    \/ RunTestCall
    \/ RunTestConstruct
    \/ RunTestMoveOld
    \/ RunTestStartJob
    \/ RunTestWait
    \/ RunTestMoveOutput
    \/ RunTestVerify

SpecRunTest == InitRunTest /\ [][NextRunTest]_vars

\* ---- The calls made under run_test and compare_tests ----
\* Test.__init__, lines 178-183: the operations wrapped by DIR_LOCK.in_dir.
Wrapped ==
    {"start_job", "move_output_to_test_output", "move_old_output_files",
     "verify_job"}

\* A _verify_job that verifies through the wrapped verify_job.
CallsNested(f) ==
    IF f = "run_test" THEN {"verify_job"}
    ELSE IF f = "verify_job" THEN {"_verify_job"}
    ELSE IF f = "_verify_job" THEN {"verify_job"}
    ELSE {}

\* The functions of the program that the body of f calls; a wrapped
\* operation calls, in decorated_func, the function it wraps.
Calls(f) ==
    CASE f = "run_test" ->
           {"run_cmd", "testcode_filename", "move_old_output_files", "start_job",
            "job.wait", "verify_job", "move_output_to_test_output",
            "_update_status", "print_success"}
      [] f = "compare_tests" -> {"testcode_filename", "verify_job"}
      [] f = "start_job" -> {"_start_job"}
      [] f = "move_output_to_test_output" -> {"_move_output_to_test_output"}
      [] f = "move_old_output_files" -> {"_move_old_output_files"}
      [] f = "verify_job" -> {"_verify_job"}
      [] f = "_start_job" -> {"job.create_submit_file", "job.start_job"}
      [] f = "_verify_job" ->
           {"verify_job_external", "extract_data", "compare_data",
            "_update_status", "print_success"}
      [] f = "verify_job_external" -> {"extract_cmd"}
      [] f = "extract_data" ->
           {"testcode_filename", "extract_tagged_data", "extract_cmd",
            "dict_table_string"}
      [] f = "extract_tagged_data" -> {"try_floatify"}
      [] f = "dict_table_string" -> {"try_floatify"}
      [] f = "compare_data" -> {"validate"}
      [] f = "validate" -> {"validate_absolute", "validate_relative"}
      [] OTHER -> {}

Callers == 1..NCallers

InitCalls ==
    /\ NoRun
    /\ test_program = [verify |-> FALSE, ignore_fields |-> {}]
    /\ fn_args \in [root : [Callers -> {"run_test", "compare_tests"}]]

\* Every thread is in its root function; the lock is free (holder 0).
CallsStart ==
    /\ fn_ret = <<>>
    /\ fn_ret' = <<[stack |-> [th \in Callers |-> <<fn_args.root[th]>>],
                    holder |-> 0, stuck |-> {}]>>
    /\ UNCHANGED <<fn_args, config_vars, run_vars>>

\* Thread th calls g from the function it is in.  The call of a wrapped
\* operation acquires the lock (with_lock): it waits while another thread
\* holds it, and blocks for ever when th holds it itself, the lock not
\* being reentrant.
Call(th) ==
    /\ fn_ret # <<>> /\ fn_ret[1].stack[th] # <<>> /\ th \notin fn_ret[1].stuck
    /\ LET c == fn_ret[1]
           top == c.stack[th][Len(c.stack[th])]
       IN  \E g \in Calls(top) :
             IF g \notin Wrapped
             THEN fn_ret' = <<[c EXCEPT !.stack[th] = Append(@, g)]>>
             ELSE IF c.holder = th
             THEN fn_ret' = <<[c EXCEPT !.stuck = @ \cup {th}]>>
             ELSE /\ c.holder = 0
                  /\ fn_ret' = <<[c EXCEPT !.stack[th] = Append(@, g),
                                            !.holder = th]>>
    /\ UNCHANGED <<fn_args, config_vars, run_vars>>

\* The function thread th is in returns (or raises); leaving a wrapped
\* operation releases the lock.
CallReturn(th) ==
    /\ fn_ret # <<>> /\ fn_ret[1].stack[th] # <<>> /\ th \notin fn_ret[1].stuck
    /\ LET c == fn_ret[1]
           top == c.stack[th][Len(c.stack[th])]
       IN  fn_ret' = <<[c EXCEPT !.stack[th] = SubSeq(@, 1, Len(@) - 1),
                                 !.holder = IF top \in Wrapped THEN 0 ELSE @]>>
    /\ UNCHANGED <<fn_args, config_vars, run_vars>>

NextCalls ==
    \/ CallsStart
    \/ \E th \in Callers : Call(th)
    \/ \E th \in Callers : CallReturn(th)

SpecCalls == InitCalls /\ [][NextCalls]_vars

\* ---- util.testcode_filename ----
FileIds == UNION {[1..n -> {"a", ".inp=", ".args="}] : n \in 1..MaxId}
InputNames == {<<>>, <<"a">>}
ArgStrings == {<<>>, <<"a">>, <<"a", " ", "a">>, <<"a", "_", "a">>}
FileNaming == [file_id : FileIds, inp : InputNames, args : ArgStrings]

InitFilename ==
    /\ NoRun
    /\ test_program = [verify |-> FALSE, ignore_fields |-> {}]
    /\ fn_args \in [stem : {<<"test.out">>},
                    one : FileNaming, two : FileNaming]

\* Two file names are built from the same stem.
FilenameCall ==
    /\ fn_ret = <<>>
    /\ fn_ret' = <<[one |-> testcode_filename(fn_args.stem, fn_args.one.file_id,
                                              fn_args.one.inp, fn_args.one.args),
                    two |-> testcode_filename(fn_args.stem, fn_args.two.file_id,
                                              fn_args.two.inp, fn_args.two.args)]>>
    /\ UNCHANGED <<fn_args, config_vars, run_vars>>

SpecFilename == InitFilename /\ [][FilenameCall]_vars

\* ---- util.extract_tagged_data ----
\* A line: a first word (the tag or not), the words of a key, a number or
\* none.
TaggedLines ==
    {<<t>> \o k \o n : t \in {"DVAL", "other"},
                       k \in {<<>>, <<"E">>, <<"E:">>, <<"E", ":">>, <<":">>},
                       n \in {<<>>, <<"1">>, <<"2">>}}

InitExtract ==
    /\ NoRun
    /\ test_program = [verify |-> FALSE, ignore_fields |-> {}]
    /\ fn_args \in [exists : BOOLEAN,
                    lines : UNION {[1..n -> TaggedLines] : n \in 1..MaxLines}]

ExtractCall ==
    /\ fn_ret = <<>>
    /\ fn_ret' = <<extract_tagged_data("DVAL", fn_args.exists, fn_args.lines)>>
    /\ UNCHANGED <<fn_args, config_vars, run_vars>>

SpecExtract == InitExtract /\ [][ExtractCall]_vars

\* ---- util.dict_table_string ----
\* The headings a, b, c.
Heading(i) == Str(i)

\* The table of the docstring: a b c a / 1 2 3 7 / 4 5 6 8.
DocTable ==
    << <<Heading(0), Heading(1), Heading(2), Heading(0)>>,
       <<Num(1), Num(2), Num(3), Num(7)>>,
       <<Num(4), Num(5), Num(6), Num(8)>> >>

\* Tables of two columns: a header, or a data row in its place, and
\* 1..MaxRows rows under it.
TableRows == [1..2 -> {Heading(0), Heading(1)}] \cup [1..2 -> {Num(1), Num(2)}]

Tables ==
    {DocTable}
        \cup {<<h>> \o r : h \in TableRows,
                            r \in UNION {[1..n -> [1..2 -> {Num(1), Num(2)}]] :
                                            n \in 1..MaxRows}}

InitTable ==
    /\ NoRun
    /\ test_program = [verify |-> FALSE, ignore_fields |-> {}]
    /\ fn_args \in [rows : Tables]

TableCall ==
    /\ fn_ret = <<>>
    /\ fn_ret' = <<dict_table_string(fn_args.rows)>>
    /\ UNCHANGED <<fn_args, config_vars, run_vars>>

SpecTable == InitTable /\ [][TableCall]_vars

\* ---- Tolerance.__init__ and config.parse_tolerance_tuple ----
\* The tuples parse_tolerance_tuple is given: up to two thresholds (0: None)
\* and a name.
ToleranceTuples ==
    UNION {[1..n -> 0..MaxTol] : n \in 0..2}
        \cup {<<a, r, "energy">> : a \in 0..MaxTol, r \in 0..MaxTol}

InitTolerance ==
    /\ NoRun
    /\ test_program = [verify |-> FALSE, ignore_fields |-> {}]
    /\ fn_args \in [absolute : 0..MaxTol, relative : 0..MaxTol, strict : BOOLEAN,
                    val : ToleranceTuples,
                    test_val : NumValues, benchmark_val : NumValues]

\* Tolerance(absolute, relative, strict) is called.
ToleranceCall ==
    /\ fn_ret = <<>>
    /\ LET made == Tolerance_init(fn_args.absolute, fn_args.relative, fn_args.strict)
       IN  fn_ret' = <<[call |-> "Tolerance", exc |-> made.exc, obj |-> made.obj,
                        validated |-> <<>>]>>
    /\ UNCHANGED <<fn_args, config_vars, run_vars>>

\* parse_tolerance_tuple(val) is called.
ParseToleranceTuple ==
    /\ fn_ret = <<>>
    /\ LET made == parse_tolerance_tuple(fn_args.val)
       IN  fn_ret' = <<[call |-> "parse_tolerance_tuple", exc |-> made.exc,
                        obj |-> made.obj, validated |-> <<>>]>>
    /\ UNCHANGED <<fn_args, config_vars, run_vars>>

\* validate is called on the object made: it assigns to no attribute of it.
ValidateWith ==
    /\ fn_ret # <<>> /\ fn_ret[1].obj # <<>> /\ fn_ret[1].validated = <<>>
    /\ fn_ret' = <<[fn_ret[1] EXCEPT !.validated =
                       <<validate(fn_ret[1].obj[1], fn_args.test_val,
                                  fn_args.benchmark_val, "")>>]>>
    /\ UNCHANGED <<fn_args, config_vars, run_vars>>

NextTolerance == ToleranceCall \/ ParseToleranceTuple \/ ValidateWith

SpecTolerance == InitTolerance /\ [][NextTolerance]_vars

\* ---- Tolerance.validate ----
InitValidate ==
    /\ NoRun
    /\ test_program = [verify |-> FALSE, ignore_fields |-> {}]
    /\ fn_args \in [tol : Tolerances, test_val : Values, benchmark_val : Values]

Validate ==
    /\ fn_ret = <<>>
    /\ fn_ret' = <<validate(fn_args.tol, fn_args.test_val, fn_args.benchmark_val, "")>>
    /\ UNCHANGED <<fn_args, config_vars, run_vars>>

SpecValidate == InitValidate /\ [][Validate]_vars

\* ---- validation.compare_data ----
InitCompare ==
    /\ NoRun
    /\ test_program = [verify |-> FALSE, ignore_fields |-> {}]
    /\ fn_args \in [benchmark : Mappings, test : Mappings,
                    default_tolerance : ConfigTolerances,
                    tolerances : {<< >>, "energy" :> Tolerance(1, 0, TRUE)},
                    ignore_fields : {{}, {"time"}}]

Compare ==
    /\ fn_ret = <<>>
    /\ fn_ret' = <<compare_data(fn_args.benchmark, fn_args.test,
                                fn_args.default_tolerance, fn_args.tolerances,
                                fn_args.ignore_fields)>>
    /\ UNCHANGED <<fn_args, config_vars, run_vars>>

SpecCompare == InitCompare /\ [][Compare]_vars

\* ---- Test.verify_job ----
\* What the verifier or the extraction can answer in the mode of the program.
VerifyAnswers ==
    IF test_program.verify
    THEN {[kind |-> k, data |-> <<>>] : k \in {"OSError", "zero", "nonzero"}}
    ELSE {[kind |-> "RunError", data |-> <<>>]}
         \cup {[kind |-> "data", data |-> <<b, t>>] : b \in Mappings, t \in Mappings}

InitVerify ==
    /\ NoRun
    /\ test_program \in [verify : BOOLEAN, ignore_fields : {{}, {"time"}, {"energy"}}]
    /\ fn_args \in [st : {InitStatus(1)}, inp_arg : {1}, r : VerifyAnswers]

\* verify_job is called; fn_ret keeps what its call of compare_data returned
\* (if it made one) and how verify_job ended.
Verify ==
    /\ fn_ret = <<>>
    /\ fn_ret' = <<[compared |-> IF fn_args.r.kind = "data"
                                 THEN <<verify_job_compare(fn_args.r.data[1],
                                                           fn_args.r.data[2])>>
                                 ELSE <<>>,
                    res |-> verify_job(fn_args.st, fn_args.inp_arg, fn_args.r)]>>
    /\ UNCHANGED <<fn_args, config_vars, run_vars>>

SpecVerify == InitVerify /\ [][Verify]_vars

\* ---- Test._verify_job with the external verifier ----
\* A verifier whose exit code is not looked at.
verify_job_external_always(answer) ==
    IF answer.kind = "OSError"
    THEN [exc |-> "RunError", passed |-> FALSE, msg |-> ""]
    ELSE [exc |-> "none", passed |-> TRUE, msg |-> answer.stdout]

\* Test.verify_job_external: Popen of the verifier raises OSError (turned
\* into RunError) or the verifier exits; (returncode == 0, its standard
\* output) is returned.
verify_job_external(answer) ==
    IF answer.kind = "OSError"
    THEN [exc |-> "RunError", passed |-> FALSE, msg |-> ""]
    ELSE [exc |-> "none", passed |-> answer.kind = "zero", msg |-> answer.stdout]

\* Test._verify_job, lines 337-363, when self.test_program.verify is set:
\* the functions it calls, the exception it raises, the status record it
\* leaves and the (passed, msg) it prints and returns.
verify_job_verifier(st, inp_arg, answer) ==
    LET ext == verify_job_external(answer)
    IN  IF ext.exc # "none"
        THEN [calls |-> <<"verify_job_external">>, exc |-> ext.exc, st |-> st,
              passed |-> FALSE, msg |-> ""]
        ELSE [calls |-> <<"verify_job_external", "_update_status", "print_success">>,
              exc |-> "none", st |-> update_status(st, ext.passed, inp_arg),
              passed |-> ext.passed, msg |-> ext.msg]

\* The status records of a Test of two pairs.
PairStatus == {<<FALSE, FALSE>>, <<TRUE, FALSE>>, <<TRUE, TRUE>>}

InitExternal ==
    /\ NoRun
    /\ test_program = [verify |-> TRUE, ignore_fields |-> {}]
    /\ fn_args \in [st : [1..2 -> PairStatus], inp_arg : 1..2,
                    answer : [kind : {"OSError", "zero", "nonzero"},
                              stdout : {"", "ok", "differs"}]]

\* verify_job is called in verify mode.
VerifyExternal ==
    /\ fn_ret = <<>>
    /\ fn_ret' = <<verify_job_verifier(fn_args.st, fn_args.inp_arg, fn_args.answer)>>
    /\ UNCHANGED <<fn_args, config_vars, run_vars>>

SpecExternal == InitExternal /\ [][VerifyExternal]_vars

\* ---- ClusterQueueJob.wait ----
\* What the runs of the status command (qstat) answer, in order: it exits
\* with zero, exits with non-zero, or cannot be spawned (Popen's OSError).
\* The last answer is not "zero": the job ends.
Answers ==
    {a \in UNION {[1..n -> {"zero", "nonzero", "OSError"}] : n \in 1..MaxPolls} :
        a[Len(a)] # "zero"}

InitWait ==
    /\ NoRun
    /\ test_program = [verify |-> FALSE, ignore_fields |-> {}]
    /\ fn_args \in [answers : Answers]

\* A loop test that gives up at once.
wait_continues_never(retcode) == FALSE

\* A loop test that goes on while the status command fails.
wait_continues_nonzero(retcode) == retcode # 0

\* while retcode == 0
wait_continues(retcode) == retcode = 0

\* wait is called: retcode = 0.
WaitCall ==
    /\ fn_ret = <<>>
    /\ fn_ret' = <<[pc |-> "while", retcode |-> 0, nsleeps |-> 0, npolls |-> 0]>>
    /\ UNCHANGED <<fn_args, config_vars, run_vars>>

\* The loop test: into the body, or wait returns.
WaitWhile ==
    /\ fn_ret # <<>> /\ fn_ret[1].pc = "while"
    /\ fn_ret' = <<[fn_ret[1] EXCEPT !.pc = IF wait_continues(fn_ret[1].retcode)
                                            THEN "sleep" ELSE "returned"]>>
    /\ UNCHANGED <<fn_args, config_vars, run_vars>>

\* time.sleep(60)
WaitSleep ==
    /\ fn_ret # <<>> /\ fn_ret[1].pc = "sleep"
    /\ fn_ret' = <<[fn_ret[1] EXCEPT !.pc = "poll", !.nsleeps = @ + 1]>>
    /\ UNCHANGED <<fn_args, config_vars, run_vars>>

\* Popen(qstat_cmd), qstat_popen.wait(), retcode = qstat_popen.returncode;
\* an OSError of Popen leaves wait.
WaitPoll ==
    /\ fn_ret # <<>> /\ fn_ret[1].pc = "poll"
    /\ fn_ret[1].npolls < Len(fn_args.answers)
    /\ LET answer == fn_args.answers[fn_ret[1].npolls + 1]
       IN  fn_ret' = <<IF answer = "OSError"
                       THEN [fn_ret[1] EXCEPT !.pc = "raised", !.npolls = @ + 1]
                       ELSE [fn_ret[1] EXCEPT !.pc = "while", !.npolls = @ + 1,
                                              !.retcode = IF answer = "zero"
                                                          THEN 0 ELSE 1]>>
    /\ UNCHANGED <<fn_args, config_vars, run_vars>>

NextWait == WaitCall \/ WaitWhile \/ WaitSleep \/ WaitPoll

SpecWait == InitWait /\ [][NextWait]_vars

\* ---- ClusterQueueJob.wait with a status command that need not end ----
\* The answer of the status command is chosen at each poll; the polls are
\* counted up to MaxCount and last is the answer of the last one.
InitPoll ==
    /\ NoRun
    /\ test_program = [verify |-> FALSE, ignore_fields |-> {}]
    /\ fn_args = [system |-> "PBS"]

\* wait is called: retcode = 0.
PollCall ==
    /\ fn_ret = <<>>
    /\ fn_ret' = <<[pc |-> "while", retcode |-> 0, npolls |-> 0, last |-> "none"]>>
    /\ UNCHANGED <<fn_args, config_vars, run_vars>>

\* The loop test: into the body, or wait returns.
PollWhile ==
    /\ fn_ret # <<>> /\ fn_ret[1].pc = "while"
    /\ fn_ret' = <<[fn_ret[1] EXCEPT !.pc = IF wait_continues(fn_ret[1].retcode)
                                            THEN "sleep" ELSE "returned"]>>
    /\ UNCHANGED <<fn_args, config_vars, run_vars>>

\* time.sleep(60)
PollSleep ==
    /\ fn_ret # <<>> /\ fn_ret[1].pc = "sleep"
    /\ fn_ret' = <<[fn_ret[1] EXCEPT !.pc = "poll"]>>
    /\ UNCHANGED <<fn_args, config_vars, run_vars>>

\* Popen(qstat_cmd), qstat_popen.wait(), retcode = qstat_popen.returncode;
\* an OSError of Popen leaves wait.
PollStatus ==
    /\ fn_ret # <<>> /\ fn_ret[1].pc = "poll"
    /\ \E answer \in {"zero", "nonzero", "OSError"} :
         LET polled == [fn_ret[1] EXCEPT
                          !.npolls = IF @ < MaxCount THEN @ + 1 ELSE @,
                          !.last = answer]
         IN  fn_ret' = <<IF answer = "OSError"
                         THEN [polled EXCEPT !.pc = "raised"]
                         ELSE [polled EXCEPT !.pc = "while",
                                             !.retcode = IF answer = "zero"
                                                         THEN 0 ELSE 1]>>
    /\ UNCHANGED <<fn_args, config_vars, run_vars>>

NextPoll == PollCall \/ PollWhile \/ PollSleep \/ PollStatus

\* The thread that runs wait is scheduled: a step it can take is taken.
SpecPoll == InitPoll /\ [][NextPoll]_vars /\ WF_vars(NextPoll)

-----------------------------------------------------------------------------
(* Properties of the run (specification Spec). *)

InDir == {th \in Threads : frame[th].inside}

\* C1: at any moment at most one thread is inside an in_dir-wrapped operation
\* (start_job, move_output_to_test_output, move_old_output_files,
\* verify_job), whatever Tests and directories the threads work on.
C1_OneThreadInDir == Cardinality(InDir) <= 1

\* C1 witness: a worker is inside a locked operation in its directory while
\* another worker, of a Test in another directory, waits to enter one.
C1_Witness ==
    \E t1, t2 \in Workers :
        /\ t1 # t2 /\ path(t1) # path(t2)
        /\ frame[t1].inside /\ cwd = path(t1)
        /\ pc[t2] \in LockedOps /\ ~frame[t2].inside

\* C2 (as claimed): whenever a thread leaves an in_dir-wrapped operation, by
\* return or by exception, the working directory is again what it was when
\* the thread entered.
C2_CwdRestoredOnEveryExit ==
    [][\A th \in Threads :
          (frame[th].inside /\ ~frame'[th].inside) => cwd' = frame[th].saved]_vars

\* C3: in a local run with nthreads = n > 1 the workers started and not yet
\* finished are never more than n.
C3_ActiveWithinBudget ==
    (~cluster_queue /\ nthreads > 1) => ActiveWorkers <= nthreads

\* C3 witness: n > 1 workers are active, the gate is closed and run_tests
\* still has a job to start.
C3_Witness ==
    /\ ~cluster_queue /\ nthreads > 1
    /\ ActiveWorkers = nthreads
    /\ pc[0] = "run_tests"
    /\ pc[frame[0].ind] = "new"

\* C4 (as claimed, for a local run in verify mode, where the only errors are
\* RunErrors): when run_tests has completed every pair has been attempted:
\* a pair is verified, or its own error marks it, and no error of one pair
\* keeps another from being run.
C4_EveryPairAttempted ==
    (pc[0] = "end_status" /\ ~cluster_queue /\ test_program.verify)
        => \A t \in Workers : \A c \in 1..ninputs(t) : status[t][c][1]

\* C5 (as claimed): once the wait of a pair's job has returned non-zero, the
\* pair is marked attempted and not passed and neither output relocation nor
\* verification is entered for it.
C5_NonZeroWaitFailsThePair ==
    \A t \in Workers :
        frame[t].retcode = <<1>> =>
            /\ status[t][frame[t].cur] = <<TRUE, FALSE>>
            /\ pc[t] \notin {"move_output_to_test_output", "verify_job"}

\* C6 (as claimed): no RunError raised while a pair is verified leaves the
\* action: compare_tests is never ended by one.
C6_NoRunErrorLeavesCompare == frame[0].exc # "RunError"

-----------------------------------------------------------------------------
(* Properties of verify_job (specification SpecVerify). *)

\* C7 (as claimed): once verify_job's comparison of the pair has completed,
\* the pair's record is attempted, and passed exactly when the combined
\* status of the comparison is passed.
C7_StatusFollowsComparison ==
    (fn_ret # <<>> /\ fn_ret[1].compared # <<>>)
        => fn_ret[1].res.st[fn_args.inp_arg]
             = <<TRUE, fn_ret[1].compared[1][2] = PASSED>>

\* The mapping m without the keys of ignore.
Without(m, ignore) == [k \in (DOMAIN m) \ ignore |-> m[k]]

\* C10 (as claimed): when the two mappings differ in fields of ignore_fields
\* and are equal in all the others, the comparison verify_job makes finds
\* them comparable and passed.
C10_IgnoredFieldsNeverFail ==
    (/\ fn_ret # <<>>
     /\ fn_ret[1].compared # <<>>
     /\ fn_args.r.data[1] # fn_args.r.data[2]
     /\ Without(fn_args.r.data[1], test_program.ignore_fields)
          = Without(fn_args.r.data[2], test_program.ignore_fields))
        => /\ fn_ret[1].compared[1][1] = TRUE
           /\ fn_ret[1].compared[1][2] \in {PASSED, UNKNOWN}

-----------------------------------------------------------------------------
(* Properties of Tolerance.validate (specification SpecValidate). *)

\* Both thresholds are set, both values are numbers, and exactly one of the
\* absolute and the relative check passes.
ExactlyOnePasses ==
    /\ fn_args.tol.absolute # 0 /\ fn_args.tol.relative # 0
    /\ fn_args.test_val.kind = "num" /\ fn_args.benchmark_val.kind = "num"
    /\ (validate_absolute(fn_args.tol, fn_args.benchmark_val.n,
                          fn_args.test_val.n).status = PASSED)
         # (validate_relative(fn_args.tol, fn_args.benchmark_val.n,
                              fn_args.test_val.n).status = PASSED)

\* C8 (as claimed): with both thresholds set and exactly one check passing,
\* the verdict is passed if strict is false and failed if strict is true.
C8_NonStrictPasses ==
    (fn_ret # <<>> /\ ExactlyOnePasses)
        => fn_ret[1].status = (IF fn_args.tol.strict THEN FAILED ELSE PASSED)

\* C8 (amended): with both thresholds set and exactly one check passing, the
\* verdict is partial (a warning) if strict is false and failed if strict is
\* true.
C8_NonStrictIsPartial ==
    (fn_ret # <<>> /\ ExactlyOnePasses)
        => fn_ret[1].status = (IF fn_args.tol.strict THEN FAILED ELSE PARTIAL)

\* C8 witness: validate has returned for a non-strict Tolerance with both
\* thresholds and a pair of numbers that meets exactly one of them.
C8_Witness == fn_ret # <<>> /\ ExactlyOnePasses /\ ~fn_args.tol.strict

-----------------------------------------------------------------------------
(* Properties of compare_data (specification SpecCompare). *)

\* The relative check as stated: |test - benchmark| / |benchmark| < relative,
\* with 0/0 = 0 and x/0 = infinity.
RelativeErrorWithin(benchmark, test, relative) ==
    IF benchmark = 0 THEN test = 0
    ELSE Abs(test - benchmark) < relative * Abs(benchmark)

\* C9 (as claimed): when "energy" is the one key compared, under a Tolerance
\* with a relative threshold only, compare_data returns passed exactly when
\* every pair of its values has |test - benchmark| / |benchmark| below the
\* threshold.
C9_RelativeToBenchmark ==
    (/\ fn_ret # <<>>
     /\ fn_args.tolerances = << >>
     /\ fn_args.default_tolerance.absolute = 0
     /\ (DOMAIN fn_args.benchmark) \ fn_args.ignore_fields = {"energy"}
     /\ (DOMAIN fn_args.test) \ fn_args.ignore_fields = {"energy"})
        => ((fn_ret[1][2] = PASSED)
              <=> \A i \in 1..Min(Len(fn_args.benchmark["energy"]),
                                  Len(fn_args.test["energy"])) :
                     RelativeErrorWithin(fn_args.benchmark["energy"][i].n,
                                         fn_args.test["energy"][i].n,
                                         fn_args.default_tolerance.relative))

\* C11 (as claimed): when the two sequences of a compared key have different
\* lengths, some value has no counterpart and compare_data does not return
\* passed.
C11_EveryPositionValidated ==
    (/\ fn_ret # <<>>
     /\ Len(fn_args.benchmark["energy"]) # Len(fn_args.test["energy"]))
        => fn_ret[1][2] # PASSED

\* The key sets compare_data compares: the keys less the ignored fields.
BenchParams == (DOMAIN fn_args.benchmark) \ fn_args.ignore_fields
TestParams == (DOMAIN fn_args.test) \ fn_args.ignore_fields

\* msg has the line with this text about this set of keys.
Reports(msg, text, keys) ==
    \E i \in 1..Len(msg) : msg[i] = [text |-> <<text>>, keys |-> keys]

\* C19: when the key sets of the two mappings differ, compare_data returns
\* not comparable and failed whatever the values of the shared keys, and its
\* message names the benchmark-only keys and the test-only keys.
C19_KeyMismatchFails ==
    (fn_ret # <<>> /\ BenchParams # TestParams)
        => /\ fn_ret[1][1] = FALSE
           /\ fn_ret[1][2] = FAILED
           /\ (BenchParams \ TestParams # {}
                 => Reports(fn_ret[1][3], "Data only in benchmark",
                            BenchParams \ TestParams))
           /\ (TestParams \ BenchParams # {}
                 => Reports(fn_ret[1][3], "Data only in test",
                            TestParams \ BenchParams))

\* C19 witness: compare_data has returned for mappings whose key sets differ
\* (benchmark {energy, time}, test {energy}) and whose shared key has equal
\* values.
C19_Witness ==
    /\ fn_ret # <<>>
    /\ BenchParams = {"energy", "time"} /\ TestParams = {"energy"}
    /\ fn_args.benchmark["energy"] = fn_args.test["energy"]

-----------------------------------------------------------------------------
(* More properties of Tolerance.validate (specification SpecValidate). *)

\* The configured absolute check of the pair passes, or none is configured.
AbsoluteCheckPasses ==
    \/ fn_args.tol.absolute = 0
    \/ Abs(fn_args.test_val.n - fn_args.benchmark_val.n) < fn_args.tol.absolute

\* The configured relative check of the pair passes, or none is configured.
RelativeCheckPasses ==
    \/ fn_args.tol.relative = 0
    \/ RelativeErrorWithin(fn_args.benchmark_val.n, fn_args.test_val.n,
                           fn_args.tol.relative)

\* C20: with one threshold only, or both and strict, validate on a pair of
\* numbers returns passed if every configured check passes and failed if
\* one of them fails.
C20_WorstOfConfiguredChecks ==
    (/\ fn_ret # <<>>
     /\ fn_args.test_val.kind = "num" /\ fn_args.benchmark_val.kind = "num"
     /\ (fn_args.tol.absolute = 0 \/ fn_args.tol.relative = 0 \/ fn_args.tol.strict))
        => fn_ret[1].status = (IF AbsoluteCheckPasses /\ RelativeCheckPasses
                               THEN PASSED ELSE FAILED)

\* C20 witness: validate has returned for a strict Tolerance with both
\* thresholds and a pair of numbers that meets exactly one of them.
C20_Witness == fn_ret # <<>> /\ ExactlyOnePasses /\ fn_args.tol.strict

-----------------------------------------------------------------------------
(* Properties of Status.__add__ (specification SpecStatus). *)

\* C12 (as claimed): skipped + b and b + skipped are not skipped unless b is
\* skipped.
C12_SkippedNeverSurvives ==
    (fn_ret # <<>> /\ fn_args.a = SKIPPED /\ fn_args.b # SKIPPED)
        => fn_ret[1].ab # SKIPPED /\ fn_ret[1].ba # SKIPPED

\* C12 (amended): skipped + b and b + skipped are skipped exactly when b is
\* skipped or unknown; for b passed, partial or failed they are b.
C12_SkippedSurvivesOnlyUnknown ==
    (fn_ret # <<>> /\ fn_args.a = SKIPPED)
        => /\ (fn_ret[1].ab = SKIPPED) <=> (fn_args.b \in {SKIPPED, UNKNOWN})
           /\ (fn_ret[1].ba = SKIPPED) <=> (fn_args.b \in {SKIPPED, UNKNOWN})
           /\ fn_args.b \in {PASSED, PARTIAL, FAILED}
                => fn_ret[1].ab = fn_args.b /\ fn_ret[1].ba = fn_args.b

\* C12 witness: skipped + unknown has been computed, and is skipped.
C12_Witness ==
    /\ fn_ret # <<>>
    /\ fn_args.a = SKIPPED /\ fn_args.b = UNKNOWN
    /\ fn_ret[1].ab = SKIPPED

-----------------------------------------------------------------------------
(* Properties of ClusterQueueJob.wait (specification SpecWait). *)

\* The first run of the status command that does not exit with zero.
FirstNotZero(answers) ==
    CHOOSE i \in 1..Len(answers) :
        answers[i] # "zero" /\ \A j \in 1..(i - 1) : answers[j] = "zero"

\* C13: wait returns only after a poll that exited non-zero, and right after
\* the first one: after k zero polls and a non-zero one it has polled k + 1
\* times; each poll is preceded by one sleep.
C13_ReturnsAfterFirstNonZeroPoll ==
    fn_ret # <<>> =>
        LET f == fn_ret[1]
            first == FirstNotZero(fn_args.answers)
        IN  /\ f.npolls <= first
            /\ f.nsleeps = (IF f.pc = "poll" THEN f.npolls + 1 ELSE f.npolls)
            /\ f.pc = "returned"
                 => /\ f.npolls = first
                    /\ fn_args.answers[first] = "nonzero"
                    /\ f.retcode # 0

\* C13 witness: the status command exited with zero, zero, non-zero and wait
\* has returned after three polls.
C13_Witness ==
    /\ fn_ret # <<>>
    /\ fn_ret[1].pc = "returned"
    /\ fn_args.answers = <<"zero", "zero", "nonzero">>
    /\ fn_ret[1].npolls = 3

-----------------------------------------------------------------------------
(* More properties of the run (specification Spec). *)

\* C14 (as claimed): no failure of submission or polling leaves a worker as
\* an uncaught exception: no worker is ended by an OSError.
C14_NoFailureEscapesTheWorker ==
    \A t \in Workers : ~(pc[t] = "crashed" /\ frame[t].exc = "OSError")

\* run_tests has returned (or was not called).
RunTestsReturned == pc[0] \notin {"run_tests", "join"}

\* A step of thread th alone.
StepOf(th) ==
    \A u \in Threads \ {th} : pc'[u] = pc[u] /\ frame'[u] = frame[u]

\* C15: once run_tests has returned every worker that was started has
\* terminated, and until then the status record of a Test is written only
\* in a step of that Test's own running worker.
C15_JoinedBeforeAggregating ==
    /\ [](RunTestsReturned
            => /\ ActiveWorkers = 0
               /\ "run" \in actions => \A t \in Workers : Terminated(t))
    /\ [][\A t \in Workers :
            (~RunTestsReturned /\ status'[t] # status[t])
                => /\ pc[t] # "new" /\ ~Terminated(t)
                   /\ StepOf(t)]_vars

\* C15 witness: run_tests has returned from a run with several threads in
\* which a worker wrote its status record.
C15_Witness ==
    /\ pc[0] = "end_status"
    /\ nthreads > 1
    /\ \E t \in Workers : status[t][1][1]

\* C16: in a local run, while a worker is busy with pair ind (its job being
\* started or waited for, its output moved or verified), every pair before
\* ind has been attempted and no pair from ind on has been touched.
C16_OnePairAfterAnother ==
    ~cluster_queue =>
        \A t \in Workers :
            pc[t] \in {"start_job", "wait", "move_output_to_test_output",
                       "verify_job"}
                => \A c \in 1..ninputs(t) :
                      IF c < frame[t].ind THEN status[t][c][1]
                      ELSE status[t][c] = <<FALSE, FALSE>>

\* C16 witness: the job of the second pair of a Test is about to be started
\* in a local run, the first pair having been verified.
C16_Witness ==
    \E t \in Workers :
        /\ ~cluster_queue
        /\ pc[t] = "start_job" /\ frame[t].ind = 2
        /\ status[t][1][1]

\* C17: a worker that is waiting for its job is not inside a locked
\* operation, and the lock, if held, is held by another thread that is.
C17_NoLockWhileWaiting ==
    \A t \in Workers :
        pc[t] = "wait"
            => /\ ~frame[t].inside
               /\ lock => \E th \in Threads \ {t} : frame[th].inside

\* C17 witness: while one worker waits for its job another worker has
\* acquired the lock and is inside a locked operation.
C17_Witness ==
    \E t1, t2 \in Workers :
        /\ t1 # t2
        /\ pc[t1] = "wait"
        /\ frame[t2].inside /\ lock

-----------------------------------------------------------------------------
(* More properties of verify_job (specification SpecVerify). *)

\* C18 (as claimed, for a Test of one pair): after the pair has been
\* compared the report of the Test counts it as attempted, and as passed
\* exactly when every field passed.
C18_ReportCountsComparedPair ==
    (fn_ret # <<>> /\ fn_ret[1].compared # <<>>)
        => get_status(fn_ret[1].res.st)
             = <<IF fn_ret[1].compared[1][2] = PASSED THEN 1 ELSE 0, 1>>

-----------------------------------------------------------------------------
(* Properties of validate with one threshold (specification SpecValidate). *)

\* C21: with a relative threshold only, validate on a benchmark value of 0
\* passes if the test value is 0 and fails for every other test value.
C21_ZeroBenchmark ==
    (/\ fn_ret # <<>>
     /\ fn_args.tol.absolute = 0
     /\ fn_args.benchmark_val = Num(0) /\ fn_args.test_val.kind = "num")
        => fn_ret[1].status = (IF fn_args.test_val.n = 0 THEN PASSED ELSE FAILED)

\* C21 witness: validate has returned for a relative-only Tolerance, a
\* benchmark of 0 and a test value that is not 0.
C21_Witness ==
    /\ fn_ret # <<>>
    /\ fn_args.tol.absolute = 0
    /\ fn_args.benchmark_val = Num(0)
    /\ fn_args.test_val.kind = "num" /\ fn_args.test_val.n # 0

\* C22: with an absolute threshold a only, validate on a pair of numbers
\* passes if |test - benchmark| < a and fails otherwise, and gives the same
\* verdict with test and benchmark exchanged.
C22_AbsoluteStrictAndSymmetric ==
    (/\ fn_ret # <<>>
     /\ fn_args.tol.relative = 0
     /\ fn_args.test_val.kind = "num" /\ fn_args.benchmark_val.kind = "num")
        => /\ fn_ret[1].status
                = (IF Abs(fn_args.test_val.n - fn_args.benchmark_val.n)
                        < fn_args.tol.absolute
                   THEN PASSED ELSE FAILED)
           /\ fn_ret[1].status
                = validate(fn_args.tol, fn_args.benchmark_val,
                           fn_args.test_val, "").status

\* C22 witness: validate has returned for an absolute-only Tolerance and a
\* pair whose difference equals the threshold.
C22_Witness ==
    /\ fn_ret # <<>>
    /\ fn_args.tol.relative = 0
    /\ fn_args.test_val.kind = "num" /\ fn_args.benchmark_val.kind = "num"
    /\ Abs(fn_args.test_val.n - fn_args.benchmark_val.n) = fn_args.tol.absolute

-----------------------------------------------------------------------------
(* Properties of Tolerance.__init__ (specification SpecTolerance). *)

\* The thresholds and strict the call was given.
GivenTolerance ==
    IF fn_ret[1].call = "Tolerance"
    THEN Tolerance(fn_args.absolute, fn_args.relative, fn_args.strict)
    ELSE Tolerance(IF Len(fn_args.val) >= 1 THEN fn_args.val[1] ELSE 0,
                   IF Len(fn_args.val) >= 2 THEN fn_args.val[2] ELSE 0,
                   TRUE)

\* C23: a Tolerance object exists only with one of its thresholds set: the
\* call with neither raises TestCodeError and makes no object; the object
\* made keeps the thresholds it was given, also after validate.
C23_OneThresholdSet ==
    fn_ret # <<>> =>
        IF GivenTolerance.absolute = 0 /\ GivenTolerance.relative = 0
        THEN fn_ret[1].exc = "TestCodeError" /\ fn_ret[1].obj = <<>>
        ELSE /\ fn_ret[1].exc = "none"
             /\ fn_ret[1].obj = <<GivenTolerance>>
             /\ fn_ret[1].obj[1].absolute # 0 \/ fn_ret[1].obj[1].relative # 0

\* C23 witness: parse_tolerance_tuple was given a tuple with no threshold
\* and has raised TestCodeError.
C23_Witness ==
    /\ fn_ret # <<>>
    /\ fn_ret[1].call = "parse_tolerance_tuple"
    /\ fn_ret[1].exc = "TestCodeError"

-----------------------------------------------------------------------------
(* More properties of Status.__add__ (specification SpecStatus). *)

\* C24: a + b is the one of a and b with the larger ordinal; the addition is
\* commutative, associative and idempotent; passed + failed = failed and
\* passed + partial = partial; a + b is no less severe than a or b.
C24_AddIsMaximum ==
    fn_ret # <<>> =>
        LET a == fn_args.a
            b == fn_args.b
            r == fn_ret[1]
        IN  /\ r.ab \in {a, b} /\ r.ab >= a /\ r.ab >= b
            /\ r.ab = r.ba
            /\ r.ab_c = r.a_bc
            /\ a = b => r.ab = a
            /\ (a = PASSED /\ b = FAILED) => r.ab = FAILED
            /\ (a = PASSED /\ b = PARTIAL) => r.ab = PARTIAL

\* C24 witness: passed + failed has been computed.
C24_Witness ==
    /\ fn_ret # <<>>
    /\ fn_args.a = PASSED /\ fn_args.b = FAILED
    /\ fn_ret[1].ab = FAILED

-----------------------------------------------------------------------------
(* Properties of extract_tagged_data (specification SpecExtract). *)

\* Line i carries the tag and a number right after it.
NumberAfterTag(i) ==
    /\ fn_args.lines[i][1] = "DVAL"
    /\ Len(fn_args.lines[i]) >= 2
    /\ IsNumber(fn_args.lines[i][2])

\* C25 (as claimed): when the file has a tagged line with the number right
\* after the tag, the extraction completes and the key "data" holds that
\* number.
C25_DefaultKeyIsData ==
    (fn_ret # <<>> /\ fn_args.exists)
        => \A i \in 1..Len(fn_args.lines) :
              NumberAfterTag(i)
                  => /\ fn_ret[1].exc = "none"
                     /\ <<"data">> \in DOMAIN fn_ret[1].data
                     /\ \E j \in 1..Len(fn_ret[1].data[<<"data">>]) :
                           fn_ret[1].data[<<"data">>][j] = fn_args.lines[i][2]

-----------------------------------------------------------------------------
(* Properties of dict_table_string (specification SpecTable). *)

\* The number of cells of the data rows of the table that stand under the
\* heading h of the header (the first row).
CellsUnder(h) ==
    Cardinality({<<i, j>> \in (2..Len(fn_args.rows)) \X (1..Len(fn_args.rows[1])) :
                    fn_args.rows[1][j] = h})

\* The table has a header of headings and rows of numbers as long as it.
WellFormedTable ==
    /\ \A j \in 1..Len(fn_args.rows[1]) : fn_args.rows[1][j].kind = "str"
    /\ \A i \in 2..Len(fn_args.rows) : Len(fn_args.rows[i]) = Len(fn_args.rows[1])

-----------------------------------------------------------------------------
(* Properties of testcode_filename (specification SpecFilename). *)

\* The name the codec is to give to n under the stem.
ExpectedName(n) ==
    fn_args.stem \o <<".">> \o n.file_id
        \o (IF n.inp = <<>> THEN <<>> ELSE <<".inp=">> \o n.inp)
        \o (IF n.args = <<>> THEN <<>>
            ELSE <<".args=">> \o (IF n.args = <<"a", " ", "a">>
                                  THEN <<"a", "_", "a">> ELSE n.args))

\* The file id has no '.inp=' and no '.args=' in it.
PlainId(file_id) ==
    \A i \in 1..Len(file_id) : file_id[i] \notin {".inp=", ".args="}

\* C27 (as claimed): the name is stem.run_id[.inp=input][.args=args with
\* underscores for spaces], and the run id can be decoded from it: two
\* names under one stem are equal only if their run ids are.
C27_RoundTrip ==
    fn_ret # <<>> =>
        /\ fn_ret[1].one = ExpectedName(fn_args.one)
        /\ fn_ret[1].two = ExpectedName(fn_args.two)
        /\ fn_ret[1].one = fn_ret[1].two
             => fn_args.one.file_id = fn_args.two.file_id

\* C27 (amended): the name is as claimed, and the run id can be decoded
\* from it when it holds no '.inp=' and no '.args=': two names under one
\* stem whose run ids are such are equal only if the run ids are.
C27_RoundTripOfPlainIds ==
    fn_ret # <<>> =>
        /\ fn_ret[1].one = ExpectedName(fn_args.one)
        /\ fn_ret[1].two = ExpectedName(fn_args.two)
        /\ (/\ PlainId(fn_args.one.file_id) /\ PlainId(fn_args.two.file_id)
            /\ fn_ret[1].one = fn_ret[1].two)
             => fn_args.one.file_id = fn_args.two.file_id

\* C27 witness: two names have been built that are equal, from equal plain
\* run ids with an input and arguments with a space.
C27_Witness ==
    /\ fn_ret # <<>>
    /\ fn_ret[1].one = fn_ret[1].two
    /\ PlainId(fn_args.one.file_id)
    /\ fn_args.one.inp # <<>> /\ fn_args.one.args = <<"a", " ", "a">>

-----------------------------------------------------------------------------
(* Properties of the run under an interrupt (specification SpecInterrupt). *)

\* C28 (as claimed): once the interrupt signal has been handled the whole
\* run has ended: no worker takes a further step (starts a job, verifies a
\* pair, writes a status record) and end_status is not reached.
C28_InterruptEndsTheRun ==
    [][pc[0] = "interrupted" => (pc' = pc /\ status' = status)]_vars

-----------------------------------------------------------------------------
(* Properties of the status records (specification Spec). *)

\* The handler of run_test ends the operation at the pc of worker t: start_job
\* and move_output_to_test_output end run_test only by a RunError.
HandlerRuns(t) ==
    /\ pc[t] \in {"start_job", "move_output_to_test_output"}
    /\ pc'[t] = "done"

\* C29 (as claimed, for a local run): when the start of the job of pair ind
\* or the relocation of its output raises a RunError, the handler marks pair
\* ind attempted and not passed and changes no other entry.
C29_HandlerMarksRaisingPair ==
    [][\A t \in Workers :
          (~cluster_queue /\ HandlerRuns(t))
              => status'[t] = [status[t] EXCEPT ![frame[t].ind] = <<TRUE, FALSE>>]]_vars

\* C30: passed implies attempted for every pair of every Test, no flag that
\* is set is ever reset, and get_status returns npassed <= nran <= the
\* number of pairs of the Test.
C30_FlagsOnlyGrow ==
    /\ [](\A t \in Workers :
            /\ \A c \in 1..ninputs(t) : status[t][c][2] => status[t][c][1]
            /\ get_status(status[t])[1] <= get_status(status[t])[2]
            /\ get_status(status[t])[2] <= ninputs(t))
    /\ [][\A t \in Workers : \A c \in 1..ninputs(t) :
            /\ status[t][c][1] => status'[t][c][1]
            /\ status[t][c][2] => status'[t][c][2]]_vars

\* C30 witness: after a run, compare_tests is verifying again a pair that
\* passed in the run, with the external verifier, whose exit can be non-zero.
C30_Witness ==
    /\ "run" \in actions /\ test_program.verify
    /\ pc[0] = "verify_job" /\ frame[0].inside
    /\ status[frame[0].ind][frame[0].cur] = <<TRUE, TRUE>>

-----------------------------------------------------------------------------
(* Properties of the lock (specification SpecLock). *)

\* Thread th waits in acquire() for a locked operation.
WaitsForLock(th) == pc[th] \in LockedOps /\ ~frame[th].inside

\* C31: a thread that leaves a locked operation, by return or by exception,
\* leaves the lock free; and when every locked operation terminates, every
\* thread that waits for the lock acquires it.
C31_LockAlwaysReleased ==
    /\ [][\A th \in Threads :
            (frame[th].inside /\ ~frame'[th].inside) => ~lock']_vars
    /\ \A th \in Threads : WaitsForLock(th) ~> frame[th].inside

\* C31 witness: a thread waits for the lock, which is free again after an
\* operation of another thread has raised and ended its run_test (the
\* working directory is still that of the other thread's Test).
C31_Witness ==
    \E t1, t2 \in Workers :
        /\ t1 # t2
        /\ WaitsForLock(t1) /\ ~lock
        /\ pc[t2] = "done" /\ cwd = path(t2)

-----------------------------------------------------------------------------
(* Properties of run_tests (specification SpecFair). *)

\* C34: when every job ends and every locked operation terminates,
\* run_tests returns; when it has, every worker has been started, and a
\* worker is started only once.
C34_RunTestsReturns ==
    /\ ("run" \in actions) => <>(pc[0] = "end_status")
    /\ [](pc[0] = "end_status" => \A t \in Workers : pc[t] # "new")
    /\ [][\A t \in Workers :
            (pc'[t] = "run_test" /\ pc[t] # "run_test") => pc[t] = "new"]_vars

\* C34 witness: run_tests has returned from a run with several threads in
\* which the gate was closed: every worker has terminated.
C34_Witness ==
    /\ pc[0] = "end_status"
    /\ ~cluster_queue /\ nthreads > 1 /\ nthreads < NTests
    /\ \A t \in Workers : Terminated(t)

-----------------------------------------------------------------------------
(* Properties of the calls under the lock (specification SpecCalls). *)

\* The wrapped operations thread th is in.
WrappedIn(th) ==
    {i \in 1..Len(fn_ret[1].stack[th]) : fn_ret[1].stack[th][i] \in Wrapped}

\* C32: no thread calls a wrapped operation while it is in one: a thread is
\* in at most one wrapped operation, it holds the lock exactly then, and no
\* thread is ever blocked on the lock it holds itself.
C32_NoSelfDeadlock ==
    fn_ret # <<>> =>
        /\ fn_ret[1].stuck = {}
        /\ \A th \in Callers :
              /\ Cardinality(WrappedIn(th)) <= 1
              /\ (fn_ret[1].holder = th) = (WrappedIn(th) # {})

\* C32 witness: a thread is in extract_data, called by _verify_job under the
\* lock, while another is in run_test.
C32_Witness ==
    /\ fn_ret # <<>>
    /\ \E t1, t2 \in Callers :
          /\ fn_ret[1].holder = t1
          /\ fn_ret[1].stack[t1] =
                <<"run_test", "verify_job", "_verify_job", "extract_data">>
          /\ fn_ret[1].stack[t2] = <<"run_test">>

-----------------------------------------------------------------------------
(* Properties of an endless wait (specification SpecPoll). *)

\* wait has ended, by return or by exception.
WaitEnded == fn_ret # <<>> /\ fn_ret[1].pc \in {"returned", "raised"}

\* C33 (as claimed): wait ends only when a poll of the status command has
\* exited with a non-zero code.
C33_EndsOnlyOnNonZeroExit == WaitEnded => fn_ret[1].last = "nonzero"

\* C33 (amended): wait returns only when the last poll exited non-zero and
\* then it does return; otherwise it ends only by the OSError of a status
\* command that cannot be spawned; after any number of zero exits it is
\* still polling: there is no timeout and no limit of polls.
C33_EndsOnlyByNonZeroOrOSError ==
    /\ [](fn_ret # <<>> =>
            /\ fn_ret[1].pc = "returned" => fn_ret[1].last = "nonzero"
            /\ fn_ret[1].pc = "raised" => fn_ret[1].last = "OSError"
            /\ fn_ret[1].last \in {"none", "zero"}
                 => fn_ret[1].pc \in {"while", "sleep", "poll"})
    /\ (fn_ret # <<>> /\ fn_ret[1].last = "nonzero")
         ~> (fn_ret # <<>> /\ fn_ret[1].pc = "returned")

\* C33 witness: the status command has exited with zero MaxCount times and
\* wait sleeps before it polls again.
C33_Witness ==
    /\ fn_ret # <<>>
    /\ fn_ret[1].npolls = MaxCount /\ fn_ret[1].last = "zero"
    /\ fn_ret[1].pc = "sleep"

-----------------------------------------------------------------------------
(* Properties of run_test (specification SpecRunTest). *)

\* The events of the list events whose operation is op.
RECURSIVE EventsOf(_, _)
EventsOf(events, op) ==
    IF events = <<>> THEN <<>>
    ELSE IF events[1].op = op THEN <<events[1]>> \o EventsOf(Tail(events), op)
    ELSE EventsOf(Tail(events), op)

\* Some pair names an input file that does not exist.
SomeInputAbsent == \E i \in 1..Len(fn_args.inputs) : fn_args.inputs[i] = "absent"

\* C35: when some pair names an input file that does not exist, whichever
\* pair it is, run_test calls nothing but its handler: no old output is
\* moved and no job is started; it ends with the handler's status update.
C35_FailsBeforeAnyJob ==
    (fn_ret # <<>> /\ SomeInputAbsent)
        => /\ \A i \in 1..Len(fn_ret[1].events) :
                 fn_ret[1].events[i].op = "_update_status"
           /\ fn_ret[1].pc \in {"construct", "done"}
           /\ fn_ret[1].pc = "done" => Len(fn_ret[1].events) = 1

\* C35 witness: run_test has ended for a Test whose second pair names the
\* input file that does not exist.
C35_Witness ==
    /\ fn_ret # <<>>
    /\ fn_args.inputs = <<"present", "absent">>
    /\ fn_ret[1].pc = "done"
    /\ fn_ret[1].events = <<Event("_update_status", 2, <<>>)>>

\* The commands of the pairs 1..n, one line each.
CaseLines(n, mv) == [i \in 1..n |-> [cmd |-> i, mv |-> mv]]

\* C36: on a cluster run_test starts at most one job, whose command is the
\* commands of all the pairs in order, one per line; it verifies the pairs
\* in order, only after the wait for that job, all of them when it ends
\* without error.  Locally the k-th job it starts is the command of pair k,
\* and it starts one per pair when it ends without error.
C36_OneJobOnCluster ==
    fn_ret # <<>> =>
        LET c == fn_ret[1]
            n == Len(fn_args.inputs)
            jobs == EventsOf(c.events, "start_job")
            waits == EventsOf(c.events, "wait")
            verified == EventsOf(c.events, "verify_job")
            failed == EventsOf(c.events, "_update_status") # <<>>
        IN  IF fn_args.cluster_queue
            THEN /\ Len(jobs) <= 1
                 /\ \A k \in 1..Len(jobs) :
                       jobs[k].cmd = CaseLines(n, fn_args.output)
                 /\ verified # <<>> => Len(waits) = 1
                 /\ \A k \in 1..Len(verified) : verified[k].pair = k
                 /\ (c.pc = "done" /\ ~failed)
                       => Len(jobs) = 1 /\ Len(verified) = n
            ELSE /\ \A k \in 1..Len(jobs) : jobs[k].cmd = <<[cmd |-> k, mv |-> FALSE]>>
                 /\ \A k \in 1..Len(verified) : verified[k].pair = k
                 /\ Len(verified) <= Len(waits) /\ Len(waits) <= Len(jobs)
                 /\ (c.pc = "done" /\ ~failed)
                       => Len(jobs) = n /\ Len(verified) = n

\* C36 witness: run_test has ended without error on a cluster for a Test of
\* two pairs: one job, then two verifications.
C36_Witness ==
    /\ fn_ret # <<>>
    /\ fn_args.cluster_queue /\ Len(fn_args.inputs) = 2
    /\ fn_ret[1].pc = "done"
    /\ Len(EventsOf(fn_ret[1].events, "start_job")) = 1
    /\ Len(EventsOf(fn_ret[1].events, "verify_job")) = 2

-----------------------------------------------------------------------------
(* Properties of the verification under the lock (specification Spec). *)

\* Thread th is in verify_job, where the verifier or the extraction runs.
Verifying(th) == pc[th] = "verify_job" /\ frame[th].inside

\* C37: the verifier and the extraction run inside verify_job with the lock
\* held: at most one thread is in verify_job, and while one is no other
\* thread is in start_job, in the relocation of output or in verify_job.
C37_OneVerifierAtATime ==
    \A th \in Threads :
        Verifying(th) => /\ lock
                         /\ \A u \in Threads \ {th} : ~frame[u].inside

\* C37 witness: a worker is in verify_job with the external verifier while
\* another worker waits to start its job.
C37_Witness ==
    \E t1, t2 \in Workers :
        /\ test_program.verify
        /\ Verifying(t1)
        /\ pc[t2] = "start_job" /\ ~frame[t2].inside

-----------------------------------------------------------------------------
(* More properties of testcode_filename (specification SpecFilename). *)

\* C38 (as claimed): for one stem and one run id, two different pairs of
\* input and arguments get different file names.
C38_DistinctPairsDistinctNames ==
    (/\ fn_ret # <<>>
     /\ fn_args.one.file_id = fn_args.two.file_id
     /\ <<fn_args.one.inp, fn_args.one.args>> # <<fn_args.two.inp, fn_args.two.args>>)
        => fn_ret[1].one # fn_ret[1].two

-----------------------------------------------------------------------------
(* Properties of verify_job in verify mode (specification SpecExternal). *)

\* C39: in verify mode verify_job calls the external verifier once and
\* neither the extraction nor the comparison; when the verifier ran, the
\* verdict is passed exactly when it exited with zero, the text is its
\* standard output, and the pair is marked attempted, and passed when the
\* verdict is (for a pair not passed before: exactly when it is).
C39_VerifierDecides ==
    fn_ret # <<>> =>
        LET v == fn_ret[1]
            was == fn_args.st[fn_args.inp_arg]
        IN  /\ Len(EventsOf([i \in 1..Len(v.calls) |-> [op |-> v.calls[i]]],
                            "verify_job_external")) = 1
            /\ \A i \in 1..Len(v.calls) :
                  v.calls[i] \notin {"extract_data", "compare_data", "validate"}
            /\ fn_args.answer.kind = "OSError"
                 => v.exc = "RunError" /\ v.st = fn_args.st
            /\ fn_args.answer.kind # "OSError"
                 => /\ v.exc = "none"
                    /\ v.passed = (fn_args.answer.kind = "zero")
                    /\ v.msg = fn_args.answer.stdout
                    /\ v.st[fn_args.inp_arg] = <<TRUE, was[2] \/ v.passed>>
                    /\ \A c \in DOMAIN v.st \ {fn_args.inp_arg} : v.st[c] = fn_args.st[c]
                    /\ v.st = verify_job(fn_args.st, fn_args.inp_arg,
                                         [kind |-> fn_args.answer.kind, data |-> <<>>]).st

\* C39 witness: the verifier exited non-zero with output for a pair not yet
\* attempted: the pair is attempted and not passed and the text is kept.
C39_Witness ==
    /\ fn_ret # <<>>
    /\ fn_args.answer = [kind |-> "nonzero", stdout |-> "differs"]
    /\ fn_args.st[fn_args.inp_arg] = <<FALSE, FALSE>>
    /\ fn_ret[1].st[fn_args.inp_arg] = <<TRUE, FALSE>>
    /\ fn_ret[1].msg = "differs"

====
